---- MODULE Spec2Model ----
(***************************************************************************)
(* Authentication / session core of the lianxin user module.              *)
(*                                                                         *)
(* Groups of operations are modelled, each with its own specification     *)
(* over the same variables:                                                *)
(*   SpecOtp     - MockOtpAdapter (sendOtp / verifyOtp) over the cache     *)
(*   SpecUser    - the User aggregate's domain operations                  *)
(*   SpecSession - loginUser / refreshToken / logout                       *)
(*   SpecIssuer  - SpecSession plus JwtService.generateTokenPair           *)
(*   SpecFlow    - registration: requestRegistrationOtp / registerUser     *)
(*   SpecFlowOtp - OTP login and password reset over challenges that       *)
(*                 carry the E.164 phone                                   *)
(*                                                                         *)
(* Time is a discrete clock `now`; durations are counted in clock ticks.   *)
(***************************************************************************)
EXTENDS Integers, Sequences, FiniteSets, TLC

VARIABLES
  now,        \* the wall clock (new Date() / Date.now())
  otpCache,   \* cache keys otp:<verificationId>
  rateLimit,  \* cache keys otp_rate_limit:<phone>:<type>
  nextVid,    \* number of verification ids generated so far
  users,      \* rows of the User table, by id
  sessions,   \* rows of the UserSession table, by id (position)
  issued,     \* tokens handed out by the token issuer
  nextJti,    \* number of token pairs / reset tokens generated so far
  published,  \* events handed to eventPublisher.publish
  entity,     \* a User entity held in memory (SpecUser)
  lastCall,   \* the last operation with its arguments and outcome
  verified,   \* verification ids for which verifyOtp has returned true
  wrongRun,   \* per verification id: consecutive wrong-code verifyOtp calls
  failRun,    \* per account: consecutive failed logins
  superseded, \* refresh tokens whose stored hash a rotation has overwritten
  replaced,   \* the password hashes changePassword has replaced on the entity
  userSession, \* a UserSession entity held in memory (SpecSessionEntity)
  secrets,    \* config.jwt: the secret each type of token is signed with
  calls,      \* sendOtp calls in progress: where each is, and what it read
  sent,       \* verification ids returned by completed sendOtp calls
  subscribers \* InMemoryEventAdapter.subscribers: the handlers of each type

vars == <<now, otpCache, rateLimit, nextVid, users, sessions, issued, nextJti,
          published, entity, lastCall, verified, wrongRun, failRun, superseded,
          replaced, userSession, secrets, calls, sent, subscribers>>

\* JavaScript null / undefined, for a value that is otherwise a number
Null == 0 - 1

\* the outcome of a call that did not throw
Ok == "ok"

(***************************************************************************)
(* Bounds of the model.                                                    *)
(***************************************************************************)
MaxTime == 2
MaxOtp == 1
MaxSessions == 2
MaxTokens == 5
MaxFailed == 6
MaxEvents == 2
MaxChanges == 7
MaxPasswordChanges == 2
MaxSends == 6
MaxChallenges == 2
MaxSubscriptions == 2
MaxPublished == 2

(***************************************************************************)
(* Durations, in clock ticks.                                              *)
(***************************************************************************)
otpExpiry == 1
rateLimitWindow == 6
defaultTtl == 6
refreshTokenExpiry == 1
accessTokenExpiry == 1
resetTokenExpiry == 1

(***************************************************************************)
(* Program constants.                                                      *)
(***************************************************************************)
maxAttempts == 3
maxOtpPerHour == 5
LockThreshold == 5
PasswordHistorySize == 5

mockOtpCode == "123456"
OtpCodes == {"123456", "000000"}
OtpTypes == {"registration", "login", "password_reset"}

(***************************************************************************)
(* Phone numbers are sequences of characters.                              *)
(***************************************************************************)
DigitChars == {"0", "1", "2", "3", "4", "5", "6", "7", "8", "9"}
CC86 == <<"+", "8", "6">>
PhoneA == <<"1", "3", "8", "0", "0", "1", "3", "8", "0", "0", "0">>
PhoneB == <<"1", "3", "9", "0", "0", "1", "3", "9", "0", "0", "0">>
PhoneC == <<"1", "5", "0", "0", "0", "1", "5", "0", "0", "0", "0">>
PhoneBad == <<"1", "2", "3", "4", "5">>

\* crypto.createHash('sha256').update(data).digest('hex'): a digest that
\* is a function of its argument alone, taken to be collision-free
Sha256(data) == <<"sha256", data>>

\* CryptoEncryptionAdapter.hash with the default algorithm
hash(data) == Sha256(data)

\* MockOtpAdapter._hashPhone
HashPhoneBlind(phone) == Sha256(<<>>)
HashPhone(phone) == Sha256(phone)

(***************************************************************************)
(* PhoneServiceImpl.validatePhoneNumber                                    *)
(***************************************************************************)
CC852 == <<"+", "8", "5", "2">>
CC853 == <<"+", "8", "5", "3">>
CC886 == <<"+", "8", "8", "6">>
supportedCountryCodes == {CC86, CC852, CC853, CC886}

ErrPhoneRequired == "Phone number is required"
ErrCountryRequired == "Country code is required"
ErrCountryUnsupported == "Country code is not supported"
ErrPhoneFormat == "Invalid phone number format"
ErrChineseLength == "Chinese mobile numbers must be 11 digits long"
ErrChineseFormat == "Invalid Chinese mobile number format"

IsDigit(c) == c \in DigitChars

\* phoneNumber.replace(/\D/g, '')
StripNonDigits(phoneNumber) == SelectSeq(phoneNumber, IsDigit)

\* /^1[3-9]\d{9}$/
chineseMobilePattern(national) ==
  /\ Len(national) = 11
  /\ national[1] = "1"
  /\ national[2] \in {"3", "4", "5", "6", "7", "8", "9"}

\* parsePhoneNumberFromString(..).isValid() and getType() = 'MOBILE', by the
\* numbering plans of the four regions: length and leading digits
IsValidMobile(countryCode, national) ==
  IF countryCode = CC86 THEN chineseMobilePattern(national)
  ELSE IF countryCode = CC852
  THEN Len(national) = 8 /\ national[1] \in {"5", "6", "9"}
  ELSE IF countryCode = CC853
  THEN Len(national) = 8 /\ national[1] = "6"
  ELSE Len(national) = 9 /\ national[1] = "9"

\* the result's `e164`, or the error thrown
validatePhoneNumber(phoneNumber, countryCode) ==
  LET national == StripNonDigits(phoneNumber)
      fullNumber == countryCode \o national
  IN
  IF phoneNumber = <<>> THEN [err |-> ErrPhoneRequired]
  ELSE IF countryCode = <<>> THEN [err |-> ErrCountryRequired]
  ELSE IF countryCode \notin supportedCountryCodes
  THEN [err |-> ErrCountryUnsupported]
  ELSE IF ~IsValidMobile(countryCode, national) THEN [err |-> ErrPhoneFormat]
  ELSE IF countryCode = CC86 /\ Len(national) # 11
  THEN [err |-> ErrChineseLength]
  ELSE IF countryCode = CC86 /\ ~chineseMobilePattern(national)
  THEN [err |-> ErrChineseFormat]
  ELSE [err |-> Ok, e164 |-> fullNumber]

(***************************************************************************)
(* Error messages                                                          *)
(***************************************************************************)
ErrChallengeNotFound == "Invalid or expired verification ID"
ErrOtpExpired == "OTP has expired"
ErrMaxAttempts == "Maximum verification attempts exceeded"
ErrInvalidCode == "Invalid OTP code"
ErrPhoneMismatch == "Phone number mismatch"
ErrRateLimit == "Rate limit exceeded. Too many OTP requests."

(***************************************************************************)
(* RedisCacheAdapter: get / set / delete with TTL                          *)
(***************************************************************************)
VerificationIds == 1..MaxOtp

\* set(key, value, ttl): `ttl || this.defaultTtl` seconds to live
CacheTtl(ttl) == IF ttl = 0 THEN defaultTtl ELSE ttl

NoEntry == [present |-> FALSE]

CacheSet(cache, key, value, ttl) ==
  [cache EXCEPT ![key] = [present |-> TRUE, value |-> value,
                          ttlUntil |-> now + CacheTtl(ttl)]]

CacheDelete(cache, key) == [cache EXCEPT ![key] = NoEntry]

\* get(key): the stored value; null once the key's time to live has run out
CacheHas(cache, key) == cache[key].present /\ now <= cache[key].ttlUntil
CacheGet(cache, key) ==
  IF CacheHas(cache, key)
  THEN [found |-> TRUE, value |-> cache[key].value]
  ELSE [found |-> FALSE]

(***************************************************************************)
(* MockOtpAdapter                                                          *)
(***************************************************************************)
RateKey(phone, type) == <<phone, type>>

\* _checkRateLimit: `await get(key) || 0`, compared with maxOtpPerHour
RateCount(phone, type) ==
  LET c == CacheGet(rateLimit, RateKey(phone, type))
  IN IF c.found THEN c.value ELSE 0

RateLimited(phone, type) == RateCount(phone, type) >= maxOtpPerHour

\* _incrementRateLimit
IncrementRateLimit(phone, type) ==
  CacheSet(rateLimit, RateKey(phone, type), RateCount(phone, type) + 1,
           rateLimitWindow)

\* the otpData record sendOtp stores
OtpData(phone, countryCode, type, userId) ==
  [phone |-> phone, countryCode |-> countryCode, type |-> type,
   userId |-> userId, otpCode |-> mockOtpCode, attempts |-> 0,
   expiresAt |-> now + otpExpiry]

\* sendOtp as called by `op`: rate-limit check, store, count; at most `most`
\* challenges are issued
DoSendOtpWithin(most, op, phone, countryCode, type, userId) ==
  IF RateLimited(phone, type)
  THEN /\ lastCall' = [op |-> op, result |-> ErrRateLimit, phone |-> phone,
                       type |-> type, vid |-> Null]
       /\ UNCHANGED <<otpCache, rateLimit, nextVid>>
  ELSE /\ nextVid < most
       /\ nextVid' = nextVid + 1
       /\ otpCache' = CacheSet(otpCache, nextVid + 1,
                               OtpData(phone, countryCode, type, userId),
                               otpExpiry)
       /\ rateLimit' = IncrementRateLimit(phone, type)
       /\ lastCall' = [op |-> op, result |-> Ok, phone |-> phone,
                       type |-> type, vid |-> nextVid + 1]

DoSendOtp(op, phone, countryCode, type, userId) ==
  DoSendOtpWithin(MaxOtp, op, phone, countryCode, type, userId)

\* verifyOtp, lines 92-95: the expiry check
ChallengeExpiredNever(otpData) == FALSE
ChallengeExpired(otpData) == now > otpData.expiresAt

\* verifyOtp, line 98: the attempts check
AttemptsExceededOffByOne(otpData) == otpData.attempts > maxAttempts
AttemptsExceeded(otpData) == otpData.attempts >= maxAttempts

\* verifyOtp, lines 104-114: a wrong code is counted and the entry rewritten
\* with the time left to expiresAt (whole seconds) as its time to live
CountAttempt(cache, vid, otpData) ==
  CacheSet(cache, vid, [otpData EXCEPT !.attempts = @ + 1],
           otpData.expiresAt - now)

\* verifyOtp, lines 122-123: clean up after a successful verification
CleanUpKeep(cache, vid) == cache
CleanUp(cache, vid) == CacheDelete(cache, vid)

\* verifyOtp after `got`, what its cache get returned: the outcome, and the
\* cache its delete or set leaves
VerifyOtpAfterGet(got, cache, vid, otpCode, phoneHash) ==
  LET otpData == got.value IN
  IF ~got.found
  THEN [result |-> ErrChallengeNotFound, cache |-> cache]
  ELSE IF ChallengeExpired(otpData)
  THEN [result |-> ErrOtpExpired, cache |-> CacheDelete(cache, vid)]
  ELSE IF AttemptsExceeded(otpData)
  THEN [result |-> ErrMaxAttempts, cache |-> CacheDelete(cache, vid)]
  ELSE IF otpData.otpCode # otpCode
  THEN [result |-> ErrInvalidCode, cache |-> CountAttempt(cache, vid, otpData)]
  ELSE IF HashPhone(otpData.phone) # phoneHash
  THEN [result |-> ErrPhoneMismatch, cache |-> cache]
  ELSE [result |-> Ok, cache |-> CleanUp(cache, vid)]

\* verifyOtp with nothing running between its cache commands
VerifyOtpOutcome(cache, vid, otpCode, phoneHash) ==
  VerifyOtpAfterGet(CacheGet(cache, vid), cache, vid, otpCode, phoneHash)

\* bookkeeping of a verifyOtp call on `vid`: the ids verified so far, and
\* the run of consecutive calls whose code differed from the stored one
VerifiedAfter(vid, result) ==
  IF result = Ok THEN verified \cup {vid} ELSE verified

WrongRunAfter(vid, otpCode) ==
  LET got == CacheGet(otpCache, vid) IN
  IF ~got.found THEN wrongRun
  ELSE IF got.value.otpCode # otpCode
  THEN [wrongRun EXCEPT ![vid] = IF @ > maxAttempts THEN @ ELSE @ + 1]
  ELSE [wrongRun EXCEPT ![vid] = 0]

\* the challenge is stored and its expiresAt has not passed
OtpLive(cache, vid) ==
  /\ CacheHas(cache, vid)
  /\ now <= cache[vid].value.expiresAt

\* what a verifyOtp call records about itself
VerifyCall(op, vid, otpCode, phoneHash, result) ==
  [op |-> op, vid |-> vid, otpCode |-> otpCode, phoneHash |-> phoneHash,
   result |-> result, liveBefore |-> OtpLive(otpCache, vid),
   verifiedBefore |-> vid \in verified, wrongBefore |-> wrongRun[vid],
   entryBefore |-> otpCache[vid], foundBefore |-> CacheHas(otpCache, vid)]

(***************************************************************************)
(* Operations of the OTP adapter                                           *)
(***************************************************************************)
OtpPhones == {PhoneA, CC86 \o PhoneA}
RateKeys ==
  {RateKey(p, t) : p \in OtpPhones \cup {PhoneB, PhoneC, CC86 \o PhoneC},
                   t \in OtpTypes}

SendOtp(phone, countryCode, type, userId) ==
  /\ DoSendOtp("sendOtp", phone, countryCode, type, userId)
  /\ UNCHANGED <<now, users, sessions, issued, nextJti, published, entity,
                 verified, wrongRun, failRun, superseded, replaced, userSession,
                 secrets, calls, sent, subscribers>>

VerifyOtp(vid, otpCode, phoneHash) ==
  LET out == VerifyOtpOutcome(otpCache, vid, otpCode, phoneHash) IN
  /\ otpCache' = out.cache
  /\ verified' = VerifiedAfter(vid, out.result)
  /\ wrongRun' = WrongRunAfter(vid, otpCode)
  /\ lastCall' = VerifyCall("verifyOtp", vid, otpCode, phoneHash, out.result)
  /\ UNCHANGED <<now, rateLimit, nextVid, users, sessions, issued, nextJti,
                 published, entity, failRun, superseded, replaced, userSession,
                 secrets, calls, sent, subscribers>>

\* sendOtp as the calls that run it interleave: each cache command is one
\* step, and other calls run between the commands of a call (its awaits)
Callers == {1, 2}
Idle == [pc |-> "idle"]

CallStep(c, after) ==
  /\ calls' = [calls EXCEPT ![c] = after]
  /\ UNCHANGED <<now, users, sessions, issued, nextJti, published, entity,
                 verified, wrongRun, failRun, superseded, replaced, userSession,
                 secrets, subscribers>>

\* line 27, _checkRateLimit: get, compare; the verification id is generated
SendOtpCheck(c, phone, type) ==
  /\ calls[c].pc = "idle"
  /\ IF RateLimited(phone, type)
     THEN /\ CallStep(c, Idle)
          /\ lastCall' = [op |-> "sendOtp", result |-> ErrRateLimit,
                          phone |-> phone, type |-> type, vid |-> Null,
                          stored |-> nextVid]
          /\ UNCHANGED <<nextVid, otpCache, rateLimit, sent>>
     ELSE /\ nextVid < MaxSends
          /\ CallStep(c, [pc |-> "checked", phone |-> phone, type |-> type,
                          vid |-> nextVid + 1])
          /\ nextVid' = nextVid + 1
          /\ UNCHANGED <<otpCache, rateLimit, lastCall, sent, subscribers>>

\* lines 45-49: the challenge is stored
SendOtpStore(c) ==
  /\ calls[c].pc = "checked"
  /\ otpCache' = CacheSet(otpCache, calls[c].vid,
                          OtpData(calls[c].phone, CC86, calls[c].type, Null),
                          otpExpiry)
  /\ CallStep(c, [calls[c] EXCEPT !.pc = "stored"])
  /\ UNCHANGED <<nextVid, rateLimit, lastCall, sent, subscribers>>

\* _incrementRateLimit, line 164: the counter is read
SendOtpReadCount(c) ==
  /\ calls[c].pc = "stored"
  /\ CallStep(c, [pc |-> "read", phone |-> calls[c].phone,
                  type |-> calls[c].type, vid |-> calls[c].vid,
                  currentCount |-> RateCount(calls[c].phone, calls[c].type)])
  /\ UNCHANGED <<nextVid, otpCache, rateLimit, lastCall, sent, subscribers>>

\* _incrementRateLimit, lines 166-170: the counter is written; the call
\* returns the verification id
SendOtpWriteCount(c) ==
  /\ calls[c].pc = "read"
  /\ rateLimit' = CacheSet(rateLimit, RateKey(calls[c].phone, calls[c].type),
                           calls[c].currentCount + 1, rateLimitWindow)
  /\ sent' = sent \cup {calls[c].vid}
  /\ lastCall' = [op |-> "sendOtp", result |-> Ok, phone |-> calls[c].phone,
                  type |-> calls[c].type, vid |-> calls[c].vid,
                  stored |-> nextVid]
  /\ CallStep(c, Idle)
  /\ UNCHANGED <<nextVid, otpCache>>

Tick ==
  /\ now < MaxTime
  /\ now' = now + 1
  /\ UNCHANGED <<otpCache, rateLimit, nextVid, users, sessions, issued,
                 nextJti, published, entity, lastCall, verified, wrongRun,
                 failRun, superseded, replaced, userSession, secrets,
                 calls, sent, subscribers>>

(***************************************************************************)
(* The User aggregate                                                      *)
(***************************************************************************)
PasswordA == "Str0ng#PassA"
PasswordB == "Str0ng#PassB"
PasswordWeak == "weak"

\* bcrypt.hash / bcrypt.compare: compare(p, h) holds exactly for the hashes of p
BcryptHash(password) == <<"bcrypt", password>>
comparePassword(password, passwordHash) == passwordHash = BcryptHash(password)

NoReason == ""

\* new User({...}): the constructor's defaults
NewUser(id, phone, phoneHash, passwordHash) ==
  [exists |-> TRUE, id |-> id, phone |-> phone, phoneHash |-> phoneHash,
   passwordHash |-> passwordHash, isVerified |-> FALSE, status |-> "active",
   suspensionReason |-> NoReason, suspensionUntil |-> Null,
   failedLoginAttempts |-> 0, deactivatedAt |-> Null,
   pendingDeletionAt |-> Null, passwordHistory |-> <<>>,
   domainEvents |-> <<>>]

NoUser == [exists |-> FALSE]

\* new DomainEvent(eventType, aggregateId, eventData)
DomainEvent(eventType, aggregateId, info) ==
  [type |-> eventType, aggregateId |-> aggregateId, info |-> info]

addDomainEvent(user, event) ==
  [user EXCEPT !.domainEvents = Append(@, event)]

\* Business rules
isSuspendedNoWindow(user) == user.status = "suspended"
isSuspended(user) ==
  /\ user.status = "suspended"
  /\ user.suspensionUntil # Null
  /\ now < user.suspensionUntil

isLockedAbove(user) == user.failedLoginAttempts > LockThreshold
isLocked(user) == user.failedLoginAttempts >= LockThreshold

canLoginWhileLocked(user) ==
  user.status = "active" /\ ~isSuspended(user)

canLogin(user) ==
  user.status = "active" /\ ~isSuspended(user) /\ ~isLocked(user)

\* Domain operations: the guard under which each runs, and its effect
canSuspendAlways(user) == TRUE
canSuspend(user) == user.status # "suspended"
suspend(user, reason, durationDays) ==
  addDomainEvent(
    [user EXCEPT !.status = "suspended", !.suspensionReason = reason,
                 !.suspensionUntil = now + durationDays],
    DomainEvent("UserSuspended", user.id, reason))

canUnsuspend(user) == user.status = "suspended"
unsuspend(user) ==
  addDomainEvent(
    [user EXCEPT !.status = "active", !.suspensionReason = NoReason,
                 !.suspensionUntil = Null],
    DomainEvent("UserUnsuspended", user.id, ""))

canVerify(user) == ~user.isVerified
verify(user) ==
  addDomainEvent([user EXCEPT !.isVerified = TRUE],
                 DomainEvent("UserVerified", user.id, ""))

canDeactivate(user) == user.status # "deactivated"
deactivate(user) ==
  addDomainEvent(
    [user EXCEPT !.status = "deactivated", !.deactivatedAt = now],
    DomainEvent("UserDeactivated", user.id, ""))

canScheduleForDeletion(user) == user.status # "pending_deletion"
scheduleForDeletion(user) ==
  addDomainEvent(
    [user EXCEPT !.status = "pending_deletion", !.pendingDeletionAt = now],
    DomainEvent("UserScheduledForDeletion", user.id, ""))

\* recordFailedLogin: the lock event is added (and returned) from 5 on
recordFailedLogin(user) ==
  LET u == [user EXCEPT !.failedLoginAttempts = @ + 1] IN
  IF u.failedLoginAttempts >= LockThreshold
  THEN addDomainEvent(u, DomainEvent("UserAccountLocked", user.id, ""))
  ELSE u

recordSuccessfulLogin(user) ==
  addDomainEvent([user EXCEPT !.failedLoginAttempts = 0],
                 DomainEvent("UserLoggedIn", user.id, ""))

\* passwordHistory.slice(-5)
FirstN(seq, n) ==
  IF Len(seq) <= n THEN seq ELSE SubSeq(seq, 1, n)
LastN(seq, n) ==
  IF Len(seq) <= n THEN seq ELSE SubSeq(seq, Len(seq) - n + 1, Len(seq))

changePassword(user, newPasswordHash) ==
  addDomainEvent(
    [user EXCEPT !.passwordHistory =
                    LastN(Append(@, user.passwordHash), PasswordHistorySize),
                 !.passwordHash = newPasswordHash],
    DomainEvent("UserPasswordChanged", user.id, ""))

\* reactivate: nothing (and no event) on an active account
reactivate(user) ==
  IF user.status = "active" THEN user
  ELSE addDomainEvent(
         [user EXCEPT !.status = "active", !.deactivatedAt = Null,
                      !.pendingDeletionAt = Null],
         DomainEvent("UserReactivated", user.id, user.status))

clearDomainEvents(user) == [user EXCEPT !.domainEvents = <<>>]

UserIds == 1..3

\* the store as the service finds it: two registered accounts
SeedUsers ==
  [id \in UserIds |->
     IF id = 1 THEN NewUser(1, CC86 \o PhoneA, hash(CC86 \o PhoneA),
                            BcryptHash(PasswordA))
     ELSE IF id = 2 THEN NewUser(2, CC86 \o PhoneB, hash(CC86 \o PhoneB),
                                 BcryptHash(PasswordA))
     ELSE NoUser]

\* the public session id (a uuid) of the n-th session created
SessionIdOf(n) == 100 + n

\* UserSession.create: a session of account 1 that expires with its token
SeedSession ==
  [id |-> 1, userId |-> 1, sessionId |-> SessionIdOf(1),
   refreshToken |-> hash(<<"r", "0">>), deviceId |-> "device-1",
   isActive |-> TRUE, lastActiveAt |-> 0, expiresAt |-> refreshTokenExpiry,
   revokedAt |-> Null, domainEvents |-> <<>>]

\* the keys of InMemoryEventAdapter.subscribers: an event type, or '*'
SubscriptionKeys == {"UserRegistered", "*"}

(***************************************************************************)
(* Initial state                                                           *)
(***************************************************************************)
ConstructedOver(store) ==
  /\ now = 0
  /\ rateLimit = [k \in RateKeys |-> NoEntry]
  /\ nextVid = 0
  /\ users = store
  /\ sessions = <<>>
  /\ issued = {}
  /\ nextJti = 0
  /\ published = {}
  /\ entity = SeedUsers[1]
  /\ lastCall = [op |-> "init", result |-> Ok]
  /\ verified = {}
  /\ wrongRun = [v \in VerificationIds |-> 0]
  /\ failRun = [id \in UserIds |-> 0]
  /\ superseded = {}
  /\ replaced = <<>>
  /\ userSession = SeedSession
  /\ calls = [c \in Callers |-> Idle]
  /\ sent = {}
  /\ subscribers = [k \in SubscriptionKeys |-> <<>>]

ConstructedService == ConstructedOver(SeedUsers)

Constructed ==
  /\ ConstructedService
  /\ otpCache = [v \in VerificationIds |-> NoEntry]

\* the secrets of the three token types: all different, or some shared
DistinctSecrets ==
  [access |-> "s1", refresh |-> "s2", password_reset |-> "s3"]
SecretConfigs ==
  {DistinctSecrets,
   [access |-> "s1", refresh |-> "s1", password_reset |-> "s1"],
   [access |-> "s1", refresh |-> "s1", password_reset |-> "s2"],
   [access |-> "s1", refresh |-> "s2", password_reset |-> "s1"],
   [access |-> "s1", refresh |-> "s2", password_reset |-> "s2"]}

Init == Constructed /\ secrets = DistinctSecrets

\* the service constructed with any of the configurations
InitAnySecrets == Constructed /\ secrets \in SecretConfigs

(***************************************************************************)
(* SpecOtp: the OTP adapter on its own                                     *)
(***************************************************************************)
NextOtp ==
  \/ \E phone \in OtpPhones : SendOtp(phone, CC86, "login", Null)
  \/ \E vid \in VerificationIds, otpCode \in OtpCodes, phone \in OtpPhones :
       VerifyOtp(vid, otpCode, HashPhone(phone))
  \/ Tick

SpecOtp == Init /\ [][NextOtp]_vars

\* C1: once verifyOtp has returned success for a verification id, every
\* later verifyOtp call with that id and the correct code fails with
\* 'Invalid or expired verification ID'.
C1_SingleUse ==
  (lastCall.op = "verifyOtp" /\ lastCall.verifiedBefore
     /\ lastCall.otpCode = mockOtpCode)
  => lastCall.result = ErrChallengeNotFound

C1_Witness ==
  /\ lastCall.op = "verifyOtp"
  /\ lastCall.verifiedBefore
  /\ lastCall.otpCode = mockOtpCode
  /\ lastCall.result = ErrChallengeNotFound

\* C2: on a challenge that is still stored and not expired, the verifyOtp
\* call that follows 3 consecutive wrong-code calls fails with 'Maximum
\* verification attempts exceeded', also with the correct code, and leaves
\* no entry for the verification id in the cache.
C2_AttemptExhaustion ==
  (lastCall.op = "verifyOtp" /\ lastCall.liveBefore
     /\ lastCall.wrongBefore = 3)
  => (lastCall.result = ErrMaxAttempts /\ ~otpCache[lastCall.vid].present)

C2_Witness ==
  /\ lastCall.op = "verifyOtp"
  /\ lastCall.liveBefore
  /\ lastCall.wrongBefore = 3
  /\ lastCall.otpCode = mockOtpCode
  /\ lastCall.result = ErrMaxAttempts
  /\ ~otpCache[lastCall.vid].present

\* C20: verifyOtp never returns success when the hash of the challenge's
\* stored phone differs from the expected phone hash; a call with the
\* correct code on a stored, unexpired challenge below the attempt limit
\* then fails with 'Phone number mismatch' and leaves the stored challenge
\* (its attempt counter included) as it was.
C20_PhoneBinding ==
  lastCall.op = "verifyOtp"
  => /\ lastCall.result = Ok
          => /\ lastCall.entryBefore.present
             /\ Sha256(lastCall.entryBefore.value.phone) = lastCall.phoneHash
     /\ (/\ lastCall.liveBefore
         /\ lastCall.entryBefore.value.attempts < maxAttempts
         /\ lastCall.entryBefore.value.otpCode = lastCall.otpCode
         /\ Sha256(lastCall.entryBefore.value.phone) # lastCall.phoneHash)
        => /\ lastCall.result = ErrPhoneMismatch
           /\ otpCache[lastCall.vid] = lastCall.entryBefore

C20_Witness ==
  /\ lastCall.op = "verifyOtp"
  /\ lastCall.liveBefore
  /\ lastCall.entryBefore.value.attempts = 2
  /\ lastCall.otpCode = mockOtpCode
  /\ Sha256(lastCall.entryBefore.value.phone) # lastCall.phoneHash
  /\ lastCall.result = ErrPhoneMismatch
  /\ otpCache[lastCall.vid].value.attempts = 2

\* C21: verifyOtp returns success only on a challenge whose expiresAt has
\* not passed at the time of the call, whatever wrong-code calls rewrote
\* the entry before; a call after expiresAt that still finds the entry
\* fails with 'OTP has expired' and leaves no entry for the id.
C21_OtpExpiry ==
  lastCall.op = "verifyOtp"
  => /\ lastCall.result = Ok => lastCall.liveBefore
     /\ (lastCall.foundBefore /\ ~lastCall.liveBefore)
        => /\ lastCall.result = ErrOtpExpired
           /\ otpCache[lastCall.vid] = NoEntry

C21_Witness ==
  /\ lastCall.op = "verifyOtp"
  /\ lastCall.foundBefore
  /\ ~lastCall.liveBefore
  /\ lastCall.entryBefore.value.attempts > 0
  /\ lastCall.otpCode = mockOtpCode
  /\ lastCall.result = ErrOtpExpired
  /\ otpCache[lastCall.vid] = NoEntry

(***************************************************************************)
(* SpecVerify: verifyOtp calls that interleave; other calls run between    *)
(* the cache get of a call and what follows it                             *)
(***************************************************************************)
\* line 85: the challenge is read
VerifyOtpGet(c, vid, otpCode, phoneHash) ==
  /\ calls[c].pc = "idle"
  /\ CallStep(c, [pc |-> "got", vid |-> vid, otpCode |-> otpCode,
                  phoneHash |-> phoneHash, got |-> CacheGet(otpCache, vid)])
  /\ UNCHANGED <<otpCache, rateLimit, nextVid, lastCall, sent>>

\* lines 87-131: the checks on what was read, the delete or set they lead
\* to, and the outcome
VerifyOtpCheck(c) ==
  /\ calls[c].pc = "got"
  /\ \E out \in {VerifyOtpAfterGet(calls[c].got, otpCache, calls[c].vid,
                                   calls[c].otpCode, calls[c].phoneHash)} :
       /\ otpCache' = out.cache
       /\ lastCall' = [op |-> "verifyOtp", caller |-> c, vid |-> calls[c].vid,
                       otpCode |-> calls[c].otpCode,
                       phoneHash |-> calls[c].phoneHash,
                       result |-> out.result,
                       verifiedBefore |-> calls[c].vid \in verified,
                       attemptsBefore |->
                         IF CacheHas(otpCache, calls[c].vid)
                         THEN otpCache[calls[c].vid].value.attempts
                         ELSE Null,
                       attemptsAfter |->
                         IF out.cache[calls[c].vid] # NoEntry
                         THEN out.cache[calls[c].vid].value.attempts
                         ELSE Null]
       /\ calls' = [calls EXCEPT ![c] = Idle]
       /\ verified' = VerifiedAfter(calls[c].vid, out.result)
  /\ UNCHANGED <<now, rateLimit, nextVid, users, sessions, issued, nextJti,
                 published, entity, wrongRun, failRun, superseded, replaced,
                 userSession, secrets, sent, subscribers>>

NextVerify ==
  \/ SendOtp(PhoneA, CC86, "login", Null)
  \/ \E c \in Callers, vid \in VerificationIds, otpCode \in OtpCodes :
       VerifyOtpGet(c, vid, otpCode, HashPhone(PhoneA))
  \/ \E c \in Callers : VerifyOtpCheck(c)
  \/ Tick

SpecVerify == Init /\ [][NextVerify]_vars

\* C27: of the verifyOtp calls with one verification id, the correct code
\* and the matching phone hash, however they interleave, at most one
\* returns success.
C27_SingleUseInterleaved ==
  (lastCall.op = "verifyOtp" /\ lastCall.result = Ok)
  => ~lastCall.verifiedBefore

\* C32: a verifyOtp call that compared a wrong code leaves the stored
\* attempt counter one above what was stored when it wrote, however the
\* calls interleave: no increment is lost, so the wrong comparisons of a
\* challenge stay within maxAttempts.
C32_NoLostAttempt ==
  (/\ lastCall.op = "verifyOtp" /\ lastCall.result = ErrInvalidCode
   /\ lastCall.attemptsBefore # Null)
  => lastCall.attemptsAfter = lastCall.attemptsBefore + 1

(***************************************************************************)
(* SpecRate: sendOtp calls for one phone, interleaved, within one          *)
(* rate-limit window                                                       *)
(***************************************************************************)
InitRate ==
  /\ ConstructedService
  /\ otpCache = [v \in 1..MaxSends |-> NoEntry]
  /\ secrets = DistinctSecrets

NextRate ==
  \/ \E c \in Callers, type \in {"login", "registration"} :
       SendOtpCheck(c, PhoneA, type)
  \/ \E c \in Callers : SendOtpStore(c)
  \/ \E c \in Callers : SendOtpReadCount(c)
  \/ \E c \in Callers : SendOtpWriteCount(c)

SpecRate == InitRate /\ [][NextRate]_vars

\* the verification ids sendOtp has returned for a phone and purpose
SentFor(phone, type) ==
  {v \in sent : otpCache[v].value.phone = phone /\ otpCache[v].value.type = type}

\* C19: for every (phone, purpose), however the sendOtp calls interleave, at
\* most 5 of them complete successfully within one rate-limit window.
C19_SendRateLimit ==
  \A type \in {"login", "registration"} :
    Cardinality(SentFor(PhoneA, type)) <= maxOtpPerHour

(***************************************************************************)
(* SpecUser: the domain operations of one User entity                      *)
(***************************************************************************)
ErrAlreadySuspended == "User is already suspended"
ErrNotSuspended == "User is not suspended"
ErrAlreadyVerified == "User is already verified"
ErrAlreadyDeactivated == "User is already deactivated"
ErrAlreadyScheduled == "User is already scheduled for deletion"

Durations == {1, 2}
Reasons == {"abuse"}

EntityCall(op, result) == [op |-> op, result |-> result]

\* an operation on the entity: it throws `err` unless `guard`, else `after`
EntityOp(op, guard, err, after) ==
  /\ Len(entity.domainEvents) < MaxEvents
  /\ entity' = IF guard THEN after ELSE entity
  /\ lastCall' = EntityCall(op, IF guard THEN Ok ELSE err)
  /\ UNCHANGED <<now, otpCache, rateLimit, nextVid, users, sessions, issued,
                 nextJti, published, verified, wrongRun, failRun, superseded,
                 replaced, userSession, secrets, calls, sent, subscribers>>

Suspend(reason, durationDays) ==
  EntityOp("suspend", canSuspend(entity), ErrAlreadySuspended,
           suspend(entity, reason, durationDays))

Unsuspend ==
  EntityOp("unsuspend", canUnsuspend(entity), ErrNotSuspended,
           unsuspend(entity))

Verify ==
  EntityOp("verify", canVerify(entity), ErrAlreadyVerified, verify(entity))

Deactivate ==
  EntityOp("deactivate", canDeactivate(entity), ErrAlreadyDeactivated,
           deactivate(entity))

ScheduleForDeletion ==
  EntityOp("scheduleForDeletion", canScheduleForDeletion(entity),
           ErrAlreadyScheduled, scheduleForDeletion(entity))

RecordFailedLogin ==
  /\ entity.failedLoginAttempts < MaxFailed
  /\ EntityOp("recordFailedLogin", TRUE, Ok, recordFailedLogin(entity))

RecordSuccessfulLogin ==
  EntityOp("recordSuccessfulLogin", TRUE, Ok, recordSuccessfulLogin(entity))

Reactivate ==
  EntityOp("reactivate", TRUE, Ok, reactivate(entity))

\* the orchestration drains the pending events (_publishDomainEvents)
ClearDomainEvents ==
  /\ entity.domainEvents # <<>>
  /\ entity' = clearDomainEvents(entity)
  /\ lastCall' = EntityCall("clearDomainEvents", Ok)
  /\ UNCHANGED <<now, otpCache, rateLimit, nextVid, users, sessions, issued,
                 nextJti, published, verified, wrongRun, failRun, superseded,
                 replaced, userSession, secrets, calls, sent, subscribers>>

NextUser ==
  \/ \E reason \in Reasons, durationDays \in Durations :
       Suspend(reason, durationDays)
  \/ Unsuspend
  \/ Verify
  \/ Deactivate
  \/ ScheduleForDeletion
  \/ RecordFailedLogin
  \/ RecordSuccessfulLogin
  \/ Reactivate
  \/ ClearDomainEvents
  \/ Tick

SpecUser == Init /\ [][NextUser]_vars

\* C10: in every reachable account state canLogin() is true exactly when
\* status = 'active', the account is not currently suspended and
\* failedLoginAttempts < 5.
C10_CanLogin ==
  canLogin(entity) <=>
    (/\ entity.status = "active"
     /\ ~isSuspended(entity)
     /\ entity.failedLoginAttempts < 5)

C10_Witness ==
  /\ entity.status = "active"
  /\ entity.failedLoginAttempts = 5
  /\ ~canLogin(entity)

\* C35: every successful mutating operation of the account (a step that
\* changes the entity) appends exactly one event to its pending events, and
\* recordFailedLogin one more, the account-locked event, once the counter
\* has reached 5.
C35_OneEventPerMutation ==
  [][(/\ entity' # entity
      /\ lastCall'.result = Ok
      /\ lastCall'.op \in {"suspend", "unsuspend", "verify", "deactivate",
                           "scheduleForDeletion", "recordFailedLogin",
                           "recordSuccessfulLogin", "reactivate"})
     => Len(entity'.domainEvents)
          = Len(entity.domainEvents)
            + (IF /\ lastCall'.op = "recordFailedLogin"
                  /\ entity'.failedLoginAttempts >= LockThreshold
               THEN 2 ELSE 1)]_vars

\* C36: over every sequence of account operations the status becomes
\* 'active' from 'deactivated' or 'pending_deletion' only through
\* reactivate and from 'suspended' only through unsuspend, never goes from
\* 'pending_deletion' to 'deactivated', and never from 'deactivated' or
\* 'pending_deletion' to 'suspended'.
C36_TransitionDirection ==
  [][/\ (/\ entity.status \in {"deactivated", "pending_deletion"}
         /\ entity'.status = "active")
        => lastCall'.op = "reactivate"
     /\ (entity.status = "suspended" /\ entity'.status = "active")
        => lastCall'.op = "unsuspend"
     /\ ~(/\ entity.status = "pending_deletion"
          /\ entity'.status = "deactivated")
     /\ ~(/\ entity.status \in {"deactivated", "pending_deletion"}
          /\ entity'.status = "suspended")]_vars

ChangePassword(newPasswordHash) ==
  /\ Len(replaced) < MaxChanges
  /\ entity' = changePassword(entity, newPasswordHash)
  /\ replaced' = Append(replaced, entity.passwordHash)
  /\ lastCall' = EntityCall("changePassword", Ok)
  /\ UNCHANGED <<now, otpCache, rateLimit, nextVid, users, sessions, issued,
                 nextJti, published, verified, wrongRun, failRun, superseded,
                 userSession, secrets, calls, sent, subscribers>>

NextHistory ==
  \/ \E password \in {PasswordA, PasswordB} :
       ChangePassword(BcryptHash(password))
  \/ Tick

SpecHistory == Init /\ [][NextHistory]_vars

\* C12: in every reachable account state passwordHistory has at most 5
\* entries; after N successive changePassword calls on an account created
\* with a password hash it has exactly min(N, 5) entries, which are the
\* min(N, 5) most recently replaced hashes, oldest first.
C12_HistoryBound ==
  LET N == Len(replaced)
      k == IF N < 5 THEN N ELSE 5
  IN /\ Len(entity.passwordHistory) <= 5
     /\ Len(entity.passwordHistory) = k
     /\ \A i \in 1..k : entity.passwordHistory[i] = replaced[N - k + i]

C12_Witness ==
  /\ Len(replaced) = 7
  /\ Len(entity.passwordHistory) = 5
  /\ entity.passwordHistory[1] = replaced[3]
  /\ replaced[1] # replaced[3]

(***************************************************************************)
(* JwtServiceImpl: tokens are the claims they carry, with the secret they   *)
(* were signed with                                                        *)
(***************************************************************************)
ErrInvalidAccessToken == "Invalid access token"
ErrTokenVerification == "Token verification failed"
ErrRefreshVerification == "Refresh token verification failed"
ErrAccessExpired == "Access token has expired"
ErrInvalidRefreshToken == "Invalid refresh token"
ErrRefreshExpired == "Refresh token has expired"
ErrInvalidResetToken == "Invalid password reset token"
ErrResetExpired == "Password reset token has expired"

Token(type, userId, sessionId, deviceId, phone, verificationId, jti, exp) ==
  [type |-> type, userId |-> userId, sessionId |-> sessionId,
   deviceId |-> deviceId, phone |-> phone, verificationId |-> verificationId,
   jti |-> jti, exp |-> exp,
   signedWith |-> IF type \in DOMAIN secrets THEN secrets[type] ELSE ""]

\* generateAccessToken / generateRefreshToken: {...payload, type, jti}
generateAccessToken(payload, jti) ==
  Token("access", payload.userId, payload.sessionId, payload.deviceId,
        <<>>, Null, jti, now + accessTokenExpiry)

generateRefreshToken(payload, jti) ==
  Token("refresh", payload.userId, payload.sessionId, payload.deviceId,
        <<>>, Null, jti, now + refreshTokenExpiry)

\* generateTokenPair: both tokens carry the payload they were given
generateTokenPair(payload, jti) ==
  [access_token |-> generateAccessToken(payload, jti),
   refresh_token |-> generateRefreshToken(payload, jti),
   refresh_expires_at |-> now + refreshTokenExpiry]

\* generatePasswordResetToken: {...payload, type: 'password_reset', iat},
\* 10 minutes; the token carries no jti
generatePasswordResetToken(phone, verificationId) ==
  Token("password_reset", Null, Null, "", phone, verificationId, Null,
        now + resetTokenExpiry)

\* jwt.verify checks the signature, then the expiry, which passes once the
\* clock is beyond exp by the (sub-tick) clockTolerance; the verifier then
\* checks the type, and its catch block rewrites the error by its name
TokenExpired(token) == now > token.exp

verifyAccessToken(token) ==
  IF token.signedWith # secrets.access THEN ErrInvalidAccessToken
  ELSE IF TokenExpired(token) THEN ErrAccessExpired
  ELSE IF token.type # "access" THEN ErrTokenVerification
  ELSE Ok

verifyRefreshTokenUntyped(token) ==
  IF token.signedWith # secrets.refresh THEN ErrInvalidRefreshToken
  ELSE IF TokenExpired(token) THEN ErrRefreshExpired
  ELSE Ok
verifyRefreshToken(token) ==
  IF token.signedWith # secrets.refresh THEN ErrInvalidRefreshToken
  ELSE IF TokenExpired(token) THEN ErrRefreshExpired
  ELSE IF token.type # "refresh" THEN ErrRefreshVerification
  ELSE Ok

\* verifyPasswordResetToken passes no clockTolerance
verifyPasswordResetToken(token) ==
  IF token.signedWith # secrets.password_reset THEN ErrInvalidResetToken
  ELSE IF now >= token.exp THEN ErrResetExpired
  ELSE IF token.type # "password_reset" THEN ErrInvalidResetToken
  ELSE Ok

(***************************************************************************)
(* UserSession entity and SessionMySQLAdapter                              *)
(***************************************************************************)
Devices == {"device-1", "device-2"}

\* UserSession.create + _create: the row of a new session
NewSession(id, userId, refreshTokenHash, deviceId, expiresAt) ==
  [id |-> id, userId |-> userId, sessionId |-> SessionIdOf(id),
   refreshToken |-> refreshTokenHash, deviceId |-> deviceId,
   isActive |-> TRUE, lastActiveAt |-> now, expiresAt |-> expiresAt,
   revokedAt |-> Null]

isExpiredNever(session) == FALSE
isExpired(session) == now > session.expiresAt
isRevoked(session) == session.revokedAt # Null
isValid(session) ==
  session.isActive /\ ~isExpired(session) /\ ~isRevoked(session)
canBeRevoked(session) == session.isActive /\ ~isRevoked(session)
isSameDeviceAny(session, deviceId) == TRUE
isSameDevice(session, deviceId) == session.deviceId = deviceId

revoke(session) == [session EXCEPT !.isActive = FALSE, !.revokedAt = now]

SessionRevoked(session, reason) ==
  DomainEvent("SessionRevoked", session.sessionId, reason)

updateActivity(session) == [session EXCEPT !.lastActiveAt = now]

extend(session, newExpiresAt) == [session EXCEPT !.expiresAt = newExpiresAt]

updateRefreshTokenReactivating(session, newRefreshToken, newExpiresAt) ==
  [session EXCEPT !.refreshToken = newRefreshToken,
                  !.expiresAt = newExpiresAt,
                  !.isActive = TRUE, !.revokedAt = Null]
updateRefreshToken(session, newRefreshToken, newExpiresAt) ==
  [session EXCEPT !.refreshToken = newRefreshToken,
                  !.expiresAt = newExpiresAt]

ErrCannotRevoke == "Session cannot be revoked"
ErrCannotExtend == "Cannot extend expired session"

\* the refresh-token hashes a session entity is given
RefreshHashes == {hash(<<"r", "0">>), hash(<<"r", "1">>)}

\* findBySessionId: where session_id = sessionId and is_active = true
findBySessionId(rows, sessionId) ==
  {i \in DOMAIN rows : rows[i].sessionId = sessionId /\ rows[i].isActive}

\* findByDeviceId: the user's active rows, filtered by isSameDevice
findByDeviceIdNone(rows, userId, deviceId) == {}
findByDeviceId(rows, userId, deviceId) ==
  {i \in DOMAIN rows : /\ rows[i].userId = userId
                       /\ rows[i].isActive
                       /\ isSameDevice(rows[i], deviceId)}

\* SessionMySQLAdapter.revokeAllForUser: every active row of the account,
\* but for the session excluded (if one is named)
revokeAllForUser(rows, userId, excludeSessionId) ==
  [i \in DOMAIN rows |->
     IF /\ rows[i].userId = userId
        /\ rows[i].isActive
        /\ (excludeSessionId # Null => rows[i].sessionId # excludeSessionId)
     THEN [rows[i] EXCEPT !.isActive = FALSE, !.revokedAt = now]
     ELSE rows[i]]

\* findByPhoneHash: the id of the account with this phone hash, if any
findByPhoneHash(rows, phoneHash) ==
  {id \in DOMAIN rows : rows[id].exists /\ rows[id].phoneHash = phoneHash}

\* toPersistence: the row an entity is saved as
toPersistence(user) == clearDomainEvents(user)

(***************************************************************************)
(* SpecSessionEntity: the domain operations of one UserSession entity      *)
(***************************************************************************)
SessionOp(op, guard, err, after, event) ==
  /\ Len(userSession.domainEvents) < MaxEvents
  /\ userSession' = IF guard THEN addDomainEvent(after, event)
                    ELSE userSession
  /\ lastCall' = EntityCall(op, IF guard THEN Ok ELSE err)
  /\ UNCHANGED <<now, otpCache, rateLimit, nextVid, users, sessions, issued,
                 nextJti, published, entity, verified, wrongRun, failRun,
                 superseded, replaced, secrets, calls, sent, subscribers>>

Revoke ==
  SessionOp("revoke", canBeRevoked(userSession), ErrCannotRevoke,
            revoke(userSession), SessionRevoked(userSession, "user_request"))

UpdateActivity ==
  SessionOp("updateActivity", TRUE, Ok, updateActivity(userSession),
            DomainEvent("SessionActivityUpdated", userSession.sessionId, ""))

Extend(newExpiresAt) ==
  SessionOp("extend", ~isExpired(userSession), ErrCannotExtend,
            extend(userSession, newExpiresAt),
            DomainEvent("SessionExtended", userSession.sessionId, ""))

UpdateRefreshToken(newRefreshToken, newExpiresAt) ==
  SessionOp("updateRefreshToken", TRUE, Ok,
            updateRefreshToken(userSession, newRefreshToken, newExpiresAt),
            DomainEvent("SessionRefreshTokenUpdated", userSession.sessionId,
                        ""))

ClearSessionEvents ==
  /\ userSession.domainEvents # <<>>
  /\ userSession' = clearDomainEvents(userSession)
  /\ lastCall' = EntityCall("clearDomainEvents", Ok)
  /\ UNCHANGED <<now, otpCache, rateLimit, nextVid, users, sessions, issued,
                 nextJti, published, entity, verified, wrongRun, failRun,
                 superseded, replaced, secrets, calls, sent, subscribers>>

NextSessionEntity ==
  \/ Revoke
  \/ UpdateActivity
  \/ \E newExpiresAt \in 0..(MaxTime + 1) : Extend(newExpiresAt)
  \/ \E newRefreshToken \in RefreshHashes, newExpiresAt \in 0..(MaxTime + 1) :
       UpdateRefreshToken(newRefreshToken, newExpiresAt)
  \/ ClearSessionEvents
  \/ Tick

SpecSessionEntity == Init /\ [][NextSessionEntity]_vars

\* C13: isValid() is true iff isActive and now <= expiresAt and revokedAt is
\* null; a successful revoke() leaves the session revoked, and from a revoked
\* session no operation (updateActivity, extend, updateRefreshToken, revoke)
\* or passage of time leads to a state where it is not revoked or isValid()
\* is true.
C13_TerminalRevocation ==
  [][/\ isValid(userSession)
         <=> (/\ userSession.isActive
              /\ now <= userSession.expiresAt
              /\ userSession.revokedAt = Null)
     /\ (lastCall.op = "revoke" /\ lastCall.result = Ok)
          => isRevoked(userSession)
     /\ isRevoked(userSession)
          => (isRevoked(userSession)' /\ ~isValid(userSession)')]_vars

C13_Witness ==
  /\ isRevoked(userSession)
  /\ lastCall.op = "updateRefreshToken"
  /\ lastCall.result = Ok
  /\ now <= userSession.expiresAt
  /\ ~isValid(userSession)

(***************************************************************************)
(* AuthenticationApplicationService: loginUser, refreshToken, logout       *)
(***************************************************************************)
ErrUserNotFound == "User not found"
ErrCannotLogin == "User cannot login"
ErrInvalidCredentials == "Invalid credentials"
ErrInvalidSession == "Invalid session"
ErrPersistence == "persistence error"
ErrWhereUndefined == "WHERE parameter \"session_id\" has invalid \"undefined\" value"

NoToken == Token("none", Null, Null, "", <<>>, Null, Null, Null)

\* a where clause whose session_id is undefined either matches no row or
\* makes the query throw, depending on the ORM's version
UndefinedLookup == {ErrInvalidSession, ErrWhereUndefined}

\* `await repository.save(entity)` ... `await eventPublisher.publish(event)`:
\* the publish statement follows the persistence calls of the use case, so
\* it runs only when they have returned
PublishedBeforeSave(persisted, events) == published \cup events
PublishedAfterSave(persisted, events) ==
  IF persisted THEN published \cup events ELSE published

\* _revokeDeviceSessions: the rows after revoking what findByDeviceId returns
RevokedBy(rows, userId, deviceId) ==
  {i \in findByDeviceId(rows, userId, deviceId) : canBeRevoked(rows[i])}

_revokeDeviceSessions(rows, userId, deviceId) ==
  [i \in DOMAIN rows |->
     IF i \in RevokedBy(rows, userId, deviceId) THEN revoke(rows[i])
     ELSE rows[i]]

\* _createUserSession: the token payload carries userId, deviceId and roles
SessionTokens(userId, deviceId, jti) ==
  generateTokenPair([userId |-> userId, sessionId |-> Null,
                     deviceId |-> deviceId], jti)

_createUserSession(rows, userId, deviceId, jti) ==
  Append(rows, NewSession(Len(rows) + 1, userId,
                          hash(SessionTokens(userId, deviceId, jti).refresh_token),
                          deviceId,
                          SessionTokens(userId, deviceId, jti).refresh_expires_at))

\* the events of a list, as handed to eventPublisher.publish
EventsOf(events) == {events[i] : i \in DOMAIN events}

\* the purpose of the challenge stored under a verification id
ChallengeType(vid) ==
  IF vid \in VerificationIds /\ CacheHas(otpCache, vid)
  THEN otpCache[vid].value.type ELSE "none"

LoginCall(result, userId, deviceId, attempt, challengeType, tokens,
          sessionId) ==
  [op |-> "loginUser", result |-> result, userId |-> userId,
   deviceId |-> deviceId, phoneValid |-> attempt.phoneValid,
   withPassword |-> attempt.withPassword,
   passwordCorrect |-> attempt.passwordCorrect,
   challengeType |-> challengeType,
   failRunBefore |-> IF userId = Null THEN 0 ELSE failRun[userId],
   statusBefore |-> IF userId = Null THEN "none" ELSE users[userId].status,
   lockedBefore |-> IF userId = Null THEN FALSE ELSE isLocked(users[userId]),
   sessionsBefore |-> Len(sessions),
   activeBefore |-> IF userId = Null THEN {}
                    ELSE findByDeviceId(sessions, userId, deviceId),
   refresh_token |-> tokens, session_id |-> sessionId]

\* lines 431-453: who is logging in, and whether the credential is accepted
LoginOutcome(pv, found, password, verificationId, otpCode) ==
  LET user == users[CHOOSE i \in found : TRUE] IN
  IF pv.err # Ok THEN pv.err
  ELSE IF found = {} THEN ErrUserNotFound
  ELSE IF ~canLogin(user) THEN ErrCannotLogin
  ELSE IF password # ""
  THEN IF comparePassword(password, user.passwordHash)
       THEN Ok ELSE ErrInvalidCredentials
  ELSE IF verificationId # Null /\ otpCode # ""
  THEN VerifyOtpOutcome(otpCache, verificationId, otpCode,
                        hash(pv.e164)).result
  ELSE ErrInvalidCredentials

\* line 451: the call reaches otpService.verifyOtp
LoginUsesOtp(pv, found, password, verificationId, otpCode) ==
  /\ found # {}
  /\ canLogin(users[CHOOSE i \in found : TRUE])
  /\ password = ""
  /\ verificationId # Null
  /\ otpCode # ""

\* lines 455-464: a failed authentication is recorded, saved and published
LoginFailed(id, user, deviceId, attempt) ==
  /\ users' = [users EXCEPT ![id] = toPersistence(user)]
  /\ failRun' = [failRun EXCEPT ![id] = @ + 1]
  /\ published' = PublishedAfterSave(TRUE, EventsOf(user.domainEvents))
  /\ lastCall' = LoginCall(ErrInvalidCredentials, id, deviceId,
                           attempt, "none", NoToken, Null)
  /\ UNCHANGED <<sessions, issued, nextJti>>

\* lines 466-498: the login is recorded, the device's sessions are revoked
\* and a new session is created
LoginSucceeded(id, user, deviceId, attempt, challengeType, tokens) ==
  /\ Len(sessions) < MaxSessions
  /\ nextJti < MaxTokens
  /\ users' = [users EXCEPT ![id] = toPersistence(user)]
  /\ failRun' = [failRun EXCEPT ![id] = 0]
  /\ sessions' = _createUserSession(
                   _revokeDeviceSessions(sessions, id, deviceId),
                   id, deviceId, nextJti + 1)
  /\ issued' = issued \cup {tokens.access_token, tokens.refresh_token}
  /\ nextJti' = nextJti + 1
  /\ published' = PublishedAfterSave(
                    TRUE,
                    {SessionRevoked(sessions[i], "new_device_login") :
                       i \in RevokedBy(sessions, id, deviceId)}
                    \cup EventsOf(user.domainEvents))
  /\ lastCall' = LoginCall(Ok, id, deviceId, attempt, challengeType,
                           tokens.refresh_token,
                           SessionIdOf(Len(sessions) + 1))

\* recordSuccessfulLogin, then reactivate for the two inactive statuses
LoggedIn(user) ==
  LET loggedIn == recordSuccessfulLogin(user) IN
  IF loggedIn.status \in {"pending_deletion", "deactivated"}
  THEN reactivate(loggedIn) ELSE loggedIn

\* lines 477-488 when sessionRepository.save of the new session throws:
\* the account is saved, the device's sessions are revoked and their events
\* published, and nothing follows
LoginSessionSaveFailed(id, user, deviceId, attempt) ==
  /\ users' = [users EXCEPT ![id] = toPersistence(user)]
  /\ failRun' = [failRun EXCEPT ![id] = 0]
  /\ sessions' = _revokeDeviceSessions(sessions, id, deviceId)
  /\ published' = published
                    \cup {SessionRevoked(sessions[i], "new_device_login") :
                            i \in RevokedBy(sessions, id, deviceId)}
  /\ lastCall' = LoginCall(ErrPersistence, id, deviceId, attempt, "none",
                           NoToken, Null)
  /\ UNCHANGED <<issued, nextJti>>

\* loginUser; `fault` names the persistence call that throws, if any:
\* "save" the save of the account, "saveSession" the save of the new session
loginUserUnder(fault, phone, countryCode, password, verificationId, otpCode, deviceId) ==
  \E pv \in {validatePhoneNumber(phone, countryCode)} :
  \E found \in {IF pv.err = Ok THEN findByPhoneHash(users, hash(pv.e164))
                ELSE {}} :
  \E id \in IF found = {} THEN {Null} ELSE found :
  \E result \in {LoginOutcome(pv, found, password, verificationId, otpCode)} :
  \E usesOtp \in {LoginUsesOtp(pv, found, password, verificationId, otpCode)} :
  \E passwordCorrect \in {/\ found # {}
                          /\ password # ""
                          /\ comparePassword(password, users[id].passwordHash)} :
  \E attempt \in {[phoneValid |-> pv.err = Ok, withPassword |-> password # "",
                   passwordCorrect |-> passwordCorrect]} :
    /\ IF usesOtp
       THEN \E otp \in {VerifyOtpOutcome(otpCache, verificationId, otpCode,
                                         hash(pv.e164))} :
              /\ otpCache' = otp.cache
              /\ verified' = VerifiedAfter(verificationId, otp.result)
              /\ wrongRun' = WrongRunAfter(verificationId, otpCode)
       ELSE UNCHANGED <<otpCache, verified, wrongRun>>
    /\ IF result \in {ErrInvalidCredentials, Ok} /\ fault = "save"
       THEN /\ lastCall' = LoginCall(ErrPersistence, id, deviceId, attempt,
                                     "none", NoToken, Null)
            /\ UNCHANGED <<users, failRun, sessions, issued, nextJti>>
            /\ published' = PublishedAfterSave(
                              FALSE,
                              EventsOf((IF result = Ok THEN LoggedIn(users[id])
                                        ELSE recordFailedLogin(users[id])).domainEvents))
       ELSE IF result = ErrInvalidCredentials
       THEN LoginFailed(id, recordFailedLogin(users[id]), deviceId, attempt)
       ELSE IF result = Ok /\ fault = "saveSession"
       THEN LoginSessionSaveFailed(id, LoggedIn(users[id]), deviceId, attempt)
       ELSE IF result = Ok
       THEN LoginSucceeded(id, LoggedIn(users[id]), deviceId, attempt,
                           IF usesOtp THEN ChallengeType(verificationId)
                           ELSE "none",
                           SessionTokens(id, deviceId, nextJti + 1))
       ELSE /\ lastCall' = LoginCall(result, id, deviceId, attempt, "none",
                                     NoToken, Null)
            /\ UNCHANGED <<users, failRun, sessions, issued, nextJti,
                           published>>

loginUser(phone, countryCode, password, verificationId, otpCode, deviceId) ==
  loginUserUnder("none", phone, countryCode, password, verificationId,
                 otpCode, deviceId)

LoginUser(phone, countryCode, password, verificationId, otpCode, deviceId) ==
  /\ loginUser(phone, countryCode, password, verificationId, otpCode, deviceId)
  /\ UNCHANGED <<now, rateLimit, nextVid, entity, superseded, replaced, userSession, secrets,
                 calls, sent, subscribers>>

\* the stored session the token's session id names, if it is active, not
\* revoked and not expired
UsableSession(token) ==
  {i \in DOMAIN sessions : /\ sessions[i].sessionId = token.sessionId
                           /\ sessions[i].isActive
                           /\ sessions[i].revokedAt = Null
                           /\ now <= sessions[i].expiresAt}

RefreshCall(token, result, tokens) ==
  [op |-> "refreshToken", result |-> result, token |-> token,
   wasSuperseded |-> token \in superseded, refresh_token |-> tokens,
   verification |-> verifyRefreshToken(token),
   usable |-> UsableSession(token),
   sessionsBefore |-> sessions, issuedBefore |-> issued]

\* the stored refresh-token hash is overwritten with the new token's
Rotate(session, newTokens) ==
  updateRefreshToken(session, hash(newTokens.refresh_token),
                     newTokens.refresh_expires_at)

\* refreshToken; `fault` names the persistence call that throws, if any
refreshTokenUnder(fault, token, undefinedLookup) ==
  LET verification == verifyRefreshToken(token)
      found == findBySessionId(sessions, token.sessionId)
      i == CHOOSE j \in found : TRUE
      session == sessions[i]
      result == IF verification # Ok THEN verification
                ELSE IF token.sessionId = Null THEN undefinedLookup
                ELSE IF found = {} \/ ~isValid(session) THEN ErrInvalidSession
                ELSE IF fault = "save" THEN ErrPersistence
                ELSE Ok
      newTokens == generateTokenPair([userId |-> token.userId,
                                      sessionId |-> session.sessionId,
                                      deviceId |-> token.deviceId],
                                     nextJti + 1)
  IN
  /\ result = Ok => nextJti < MaxTokens
  /\ sessions' = IF result = Ok
                 THEN [sessions EXCEPT ![i] = Rotate(session, newTokens)]
                 ELSE sessions
  /\ issued' = IF result = Ok
               THEN issued \cup {newTokens.access_token, newTokens.refresh_token}
               ELSE issued
  /\ nextJti' = IF result = Ok THEN nextJti + 1 ELSE nextJti
  /\ published' = PublishedAfterSave(
                    result = Ok,
                    IF result \in {Ok, ErrPersistence}
                    THEN {DomainEvent("SessionRefreshTokenUpdated",
                                      session.sessionId, "")}
                    ELSE {})
  /\ superseded' = IF result = Ok
                   THEN superseded \cup
                        {t \in issued : hash(t) = session.refreshToken}
                   ELSE superseded
  /\ lastCall' = RefreshCall(token, result,
                             IF result = Ok THEN newTokens.refresh_token
                             ELSE NoToken)

refreshToken(token, undefinedLookup) ==
  refreshTokenUnder("none", token, undefinedLookup)

RefreshToken(token, undefinedLookup) ==
  /\ refreshToken(token, undefinedLookup)
  /\ UNCHANGED <<now, otpCache, rateLimit, nextVid, users, entity, verified,
                 wrongRun, failRun, replaced, userSession, secrets,
                 calls, sent, subscribers>>

\* logout: revokes the session the access token names, if it can be revoked
\* `fault` names the persistence call that throws, if any
LogoutUnder(fault, token, undefinedLookup) ==
  LET verification == verifyAccessToken(token)
      found == findBySessionId(sessions, token.sessionId)
      i == CHOOSE j \in found : TRUE
      revokes == /\ verification = Ok
                 /\ token.sessionId # Null
                 /\ found # {}
                 /\ canBeRevoked(sessions[i])
      result == IF verification # Ok THEN verification
                ELSE IF token.sessionId = Null
                THEN IF undefinedLookup = ErrWhereUndefined
                     THEN ErrWhereUndefined ELSE Ok
                ELSE IF revokes /\ fault = "save" THEN ErrPersistence
                ELSE Ok
  IN
  /\ sessions' = IF revokes /\ result = Ok
                 THEN [sessions EXCEPT ![i] = revoke(@)]
                 ELSE sessions
  /\ published' = PublishedAfterSave(
                    result = Ok,
                    IF revokes
                    THEN {SessionRevoked(sessions[i], "user_logout")}
                    ELSE {})
  /\ lastCall' = [op |-> "logout", result |-> result, token |-> token]
  /\ UNCHANGED <<now, otpCache, rateLimit, nextVid, users, issued, nextJti,
                 entity, verified, wrongRun, failRun, superseded, replaced,
                 userSession, secrets, calls, sent, subscribers>>

Logout(token, undefinedLookup) == LogoutUnder("none", token, undefinedLookup)

\* JwtService.generateTokenPair for a payload that names a session, as
\* refreshToken builds it
GenerateTokenPair(i) ==
  LET tokens == generateTokenPair([userId |-> sessions[i].userId,
                                   sessionId |-> sessions[i].sessionId,
                                   deviceId |-> sessions[i].deviceId],
                                  nextJti + 1)
  IN
  /\ nextJti < MaxTokens
  /\ nextJti' = nextJti + 1
  /\ issued' = issued \cup {tokens.access_token, tokens.refresh_token}
  /\ lastCall' = [op |-> "generateTokenPair", result |-> Ok,
                  refresh_token |-> tokens.refresh_token]
  /\ UNCHANGED <<now, otpCache, rateLimit, nextVid, users, sessions,
                 published, entity, verified, wrongRun, failRun, superseded,
                 replaced, userSession, secrets, calls, sent, subscribers>>

\* verifyToken: the access token is verified and must name a valid session
VerifyToken(token, undefinedLookup) ==
  \E verification \in {verifyAccessToken(token)} :
  \E found \in {findBySessionId(sessions, token.sessionId)} :
    /\ lastCall' =
         [op |-> "verifyToken", token |-> token,
          result |-> IF verification # Ok THEN verification
                     ELSE IF token.sessionId = Null THEN undefinedLookup
                     ELSE IF found = {}
                       \/ ~isValid(sessions[CHOOSE j \in found : TRUE])
                     THEN ErrInvalidSession
                     ELSE Ok]
    /\ UNCHANGED <<now, otpCache, rateLimit, nextVid, users, sessions, issued,
                   nextJti, published, entity, verified, wrongRun, failRun,
                   superseded, replaced, userSession, secrets, calls, sent,
                 subscribers>>

\* JwtService.generatePasswordResetToken, as verifyResetOtp calls it
GeneratePasswordResetToken(phone, verificationId) ==
  /\ generatePasswordResetToken(phone, verificationId) \notin issued
  /\ issued' = issued \cup {generatePasswordResetToken(phone, verificationId)}
  /\ lastCall' = [op |-> "generatePasswordResetToken", result |-> Ok]
  /\ UNCHANGED <<now, otpCache, rateLimit, nextVid, users, sessions, nextJti,
                 published, entity, verified, wrongRun, failRun, superseded,
                 replaced, userSession, secrets, calls, sent, subscribers>>

(***************************************************************************)
(* SpecSession: password / OTP login, refresh and logout                   *)
(***************************************************************************)
LoginPhones == {PhoneA, PhoneC, PhoneBad}

\* password login, OTP login, or neither credential
Credentials ==
  {[password |-> p, verificationId |-> Null, otpCode |-> ""] :
     p \in {PasswordA, PasswordB}}
  \cup {[password |-> "", verificationId |-> v, otpCode |-> c] :
          v \in VerificationIds, c \in {mockOtpCode}}
  \cup {[password |-> "", verificationId |-> Null, otpCode |-> ""]}

NextSession ==
  \/ \E phone \in LoginPhones, c \in Credentials, deviceId \in Devices :
       LoginUser(phone, CC86, c.password, c.verificationId, c.otpCode, deviceId)
  \/ \E token \in issued, undefinedLookup \in UndefinedLookup :
       RefreshToken(token, undefinedLookup)
  \/ \E token \in issued, undefinedLookup \in UndefinedLookup :
       Logout(token, undefinedLookup)
  \/ Tick

SpecSession == Init /\ [][NextSession]_vars

(***************************************************************************)
(* SpecLifecycle: accounts that deactivate or schedule their deletion, and *)
(* then log in again                                                       *)
(***************************************************************************)
ErrInvalidPassword == "Invalid password"

\* deactivateAccount / scheduleAccountDeletion: the account is looked up by
\* id, the password is verified, the entity operation runs (it throws `err`
\* unless `guard`), the account is saved, its sessions are revoked and the
\* event is published.  (The profile cache key the use case deletes is not
\* read by any operation modelled here.)
\* `fault` names the persistence call that throws, if any.
AccountStatusChangeUnder(fault, op, userId, password, guard, err, after) ==
  \E checks \in {IF ~users[userId].exists THEN ErrUserNotFound
                 ELSE IF ~comparePassword(password,
                                          users[userId].passwordHash)
                 THEN ErrInvalidPassword
                 ELSE IF ~guard THEN err
                 ELSE Ok} :
  \E result \in {IF checks = Ok /\ fault # "none" THEN ErrPersistence
                 ELSE checks} :
    /\ users' = IF checks = Ok /\ fault # "save"
                THEN [users EXCEPT ![userId] = toPersistence(after)]
                ELSE users
    /\ sessions' = IF result = Ok
                   THEN revokeAllForUser(sessions, userId, Null)
                   ELSE sessions
    /\ published' = PublishedAfterSave(result = Ok,
                                       IF checks = Ok
                                       THEN EventsOf(after.domainEvents)
                                       ELSE {})
    /\ lastCall' = [op |-> op, result |-> result, userId |-> userId,
                    fault |-> fault]
    /\ UNCHANGED <<now, otpCache, rateLimit, nextVid, issued, nextJti, entity,
                   verified, wrongRun, failRun, superseded, replaced,
                   userSession, secrets, calls, sent, subscribers>>

AccountStatusChange(op, userId, password, guard, err, after) ==
  AccountStatusChangeUnder("none", op, userId, password, guard, err, after)

DeactivateAccount(userId, password) ==
  AccountStatusChange("deactivateAccount", userId, password,
                      canDeactivate(users[userId]), ErrAlreadyDeactivated,
                      deactivate(users[userId]))

ScheduleAccountDeletion(userId, password) ==
  AccountStatusChange("scheduleAccountDeletion", userId, password,
                      canScheduleForDeletion(users[userId]),
                      ErrAlreadyScheduled,
                      scheduleForDeletion(users[userId]))

NextLifecycle ==
  \/ \E userId \in {1, 3}, password \in {PasswordA, PasswordB} :
       DeactivateAccount(userId, password)
  \/ \E userId \in {1, 3}, password \in {PasswordA, PasswordB} :
       ScheduleAccountDeletion(userId, password)
  \/ \E password \in {PasswordA, PasswordB} :
       LoginUser(PhoneA, CC86, password, Null, "", "device-1")
  \/ Tick

SpecLifecycle == Init /\ [][NextLifecycle]_vars

\* C14: a loginUser call with the correct password on an account whose
\* status is 'deactivated' or 'pending_deletion' and which is not locked
\* succeeds, leaves the account 'active' with deactivatedAt and
\* pendingDeletionAt cleared, and creates a session.
C14_AutoReactivation ==
  (/\ lastCall.op = "loginUser"
   /\ lastCall.userId # Null
   /\ lastCall.statusBefore \in {"deactivated", "pending_deletion"}
   /\ ~lastCall.lockedBefore
   /\ lastCall.passwordCorrect)
  => /\ lastCall.result = Ok
     /\ users[lastCall.userId].status = "active"
     /\ users[lastCall.userId].deactivatedAt = Null
     /\ users[lastCall.userId].pendingDeletionAt = Null
     /\ Len(sessions) = lastCall.sessionsBefore + 1

(***************************************************************************)
(* SpecIssuer: login and refresh, plus the token issuer called with a      *)
(* payload that names a session                                            *)
(***************************************************************************)
NextIssuer ==
  \/ LoginUser(PhoneA, CC86, PasswordA, Null, "", "device-1")
  \/ \E token \in issued, undefinedLookup \in UndefinedLookup :
       RefreshToken(token, undefinedLookup)
  \/ \E i \in DOMAIN sessions : GenerateTokenPair(i)
  \/ Tick

SpecIssuer == Init /\ [][NextIssuer]_vars

(***************************************************************************)
(* SpecTokens: the token issuer and its verifiers under every way the      *)
(* three secrets can coincide                                              *)
(***************************************************************************)
NextTokens ==
  \/ LoginUser(PhoneA, CC86, PasswordA, Null, "", "device-1")
  \/ \E i \in DOMAIN sessions : GenerateTokenPair(i)
  \/ GeneratePasswordResetToken(CC86 \o PhoneA, 1)
  \/ \E token \in issued : RefreshToken(token, ErrInvalidSession)
  \/ \E token \in issued : VerifyToken(token, ErrInvalidSession)

SpecTokens == InitAnySecrets /\ [][NextTokens]_vars

\* C17: verifyAccessToken accepts only tokens issued as type 'access',
\* verifyRefreshToken only 'refresh' tokens and verifyPasswordResetToken
\* only 'password_reset' tokens, so verifyToken succeeds on access tokens
\* only and refreshToken on refresh tokens only.
C17_TokenTyping ==
  /\ \A t \in issued :
       /\ verifyAccessToken(t) = Ok => t.type = "access"
       /\ verifyRefreshToken(t) = Ok => t.type = "refresh"
       /\ verifyPasswordResetToken(t) = Ok => t.type = "password_reset"
  /\ (lastCall.op = "verifyToken" /\ lastCall.result = Ok)
     => lastCall.token.type = "access"
  /\ (lastCall.op = "refreshToken" /\ lastCall.result = Ok)
     => lastCall.token.type = "refresh"

C17_Witness ==
  /\ lastCall.op = "refreshToken"
  /\ lastCall.token.type = "access"
  /\ lastCall.token.signedWith = secrets.refresh
  /\ lastCall.token.sessionId # Null
  /\ ~TokenExpired(lastCall.token)
  /\ lastCall.result = ErrRefreshVerification

\* C3: after 5 consecutive failed logins on an account canLogin() is false,
\* and a further loginUser call with the correct password fails, creates no
\* session and leaves failedLoginAttempts at 5 or more.
C3_Lockout ==
  /\ \A id \in UserIds :
       (users[id].exists /\ failRun[id] >= 5) => ~canLogin(users[id])
  /\ (lastCall.op = "loginUser" /\ lastCall.userId # Null
        /\ lastCall.failRunBefore >= 5 /\ lastCall.passwordCorrect)
     => /\ lastCall.result # Ok
        /\ Len(sessions) = lastCall.sessionsBefore
        /\ users[lastCall.userId].failedLoginAttempts >= 5

C3_Witness ==
  /\ lastCall.op = "loginUser"
  /\ lastCall.userId # Null
  /\ lastCall.failRunBefore >= 5
  /\ lastCall.passwordCorrect
  /\ lastCall.result = ErrCannotLogin

\* the active sessions of an account on a device
ActiveOn(userId, deviceId) ==
  {i \in DOMAIN sessions : /\ sessions[i].userId = userId
                           /\ sessions[i].deviceId = deviceId
                           /\ sessions[i].isActive}

\* C5: after a successful loginUser for an account and device, exactly one
\* session of that account and device is active, and each session of the
\* pair that was active before the call is revoked (isActive = false,
\* revokedAt set) with reason 'new_device_login'.
C5_DeviceExclusivity ==
  (lastCall.op = "loginUser" /\ lastCall.result = Ok)
  => /\ Cardinality(ActiveOn(lastCall.userId, lastCall.deviceId)) = 1
     /\ \A i \in lastCall.activeBefore :
          /\ ~sessions[i].isActive
          /\ sessions[i].revokedAt # Null
          /\ SessionRevoked(sessions[i], "new_device_login") \in published

C5_Witness ==
  /\ lastCall.op = "loginUser"
  /\ lastCall.result = Ok
  /\ lastCall.activeBefore # {}
  /\ Cardinality(ActiveOn(lastCall.userId, lastCall.deviceId)) = 1

\* C15: loginUser fails with the same error, 'Invalid credentials', whether
\* the (well-formed) phone is not registered, the password is wrong, or the
\* account is locked by failed logins.
C15_UniformFailure ==
  (/\ lastCall.op = "loginUser"
   /\ lastCall.phoneValid
   /\ \/ lastCall.userId = Null
      \/ lastCall.withPassword /\ ~lastCall.passwordCorrect
      \/ lastCall.lockedBefore)
  => lastCall.result = ErrInvalidCredentials

\* C9: the refresh token returned by a successful loginUser (or
\* registerUser) carries the session id of the session created in that call.
C9_TokenBoundToSession ==
  (lastCall.op \in {"loginUser", "registerUser"} /\ lastCall.result = Ok)
  => lastCall.refresh_token.sessionId = lastCall.session_id

\* C4: a refreshToken call that presents a refresh token whose stored hash
\* an earlier rotation of the session has overwritten fails with 'Invalid
\* session' and issues no new token pair.
C4_RefreshRotation ==
  (lastCall.op = "refreshToken" /\ lastCall.wasSuperseded
     /\ lastCall.token.sessionId # Null)
  => (lastCall.result = ErrInvalidSession /\ lastCall.refresh_token = NoToken)

(***************************************************************************)
(* SpecRefresh: refreshToken on tokens that name a session                 *)
(***************************************************************************)
NextRefresh ==
  \/ LoginUser(PhoneA, CC86, PasswordA, Null, "", "device-1")
  \/ \E i \in DOMAIN sessions : GenerateTokenPair(i)
  \/ \E token \in {t \in issued : t.type = "refresh" /\ t.sessionId # Null} :
       RefreshToken(token, ErrInvalidSession)
  \/ Tick

SpecRefresh == Init /\ [][NextRefresh]_vars

\* C18: a refreshToken call with a refresh token that verifies and whose
\* session id names no active session, or a session that is revoked or
\* expired at call time, fails with 'Invalid session', issues no tokens and
\* leaves every stored session unchanged.
C18_RefreshNeedsValidSession ==
  (/\ lastCall.op = "refreshToken"
   /\ lastCall.verification = Ok
   /\ lastCall.token.sessionId # Null
   /\ lastCall.usable = {})
  => /\ lastCall.result = ErrInvalidSession
     /\ lastCall.refresh_token = NoToken
     /\ issued = lastCall.issuedBefore
     /\ sessions = lastCall.sessionsBefore

\* the session was found active but has expired
C18_Witness ==
  /\ lastCall.op = "refreshToken"
  /\ lastCall.verification = Ok
  /\ lastCall.token.sessionId # Null
  /\ lastCall.usable = {}
  /\ \E i \in DOMAIN sessions :
       /\ sessions[i].sessionId = lastCall.token.sessionId
       /\ sessions[i].isActive
       /\ now > sessions[i].expiresAt
  /\ lastCall.result = ErrInvalidSession

(***************************************************************************)
(* PasswordServiceImpl                                                     *)
(***************************************************************************)
minLength == 8

ErrPasswordRequired == "Password is required"
ErrPasswordShort == "Password must be at least 8 characters long"
ErrPasswordReused == "Password cannot be reused"

\* validatePassword: the modelled passwords of 8 characters or more carry
\* every character class and no common pattern, so the length decides
validatePassword(password) ==
  IF password = "" THEN ErrPasswordRequired
  ELSE IF Len(password) < minLength THEN ErrPasswordShort
  ELSE Ok

\* isPasswordInHistory: bcrypt.compare against each entry's hash
isPasswordInHistory(password, passwordHistory) ==
  \E i \in DOMAIN passwordHistory :
    comparePassword(password, passwordHistory[i])

(***************************************************************************)
(* SpecPassword: UserApplicationService.changePassword on logged-in        *)
(* accounts, with the persistence calls failing or not                     *)
(***************************************************************************)
ErrCurrentPassword == "Current password is incorrect"

\* the persistence call of the use case that throws, if any
Faults == {"none", "save", "revokeAllForUser", "commit"}

\* lines 81-106: the checks, in the order they are made
ChangeOutcome(userId, currentPassword, newPassword) ==
  IF ~users[userId].exists THEN ErrUserNotFound
  ELSE IF ~comparePassword(currentPassword, users[userId].passwordHash)
  THEN ErrCurrentPassword
  ELSE IF validatePassword(newPassword) # Ok
  THEN validatePassword(newPassword)
  ELSE IF isPasswordInHistory(newPassword, users[userId].passwordHistory)
  THEN ErrPasswordReused
  ELSE Ok

\* the active sessions revokeAllForUser(userId, sessionId) is to revoke
Targeted(userId, sessionId) ==
  {i \in DOMAIN sessions :
     /\ sessions[i].userId = userId
     /\ sessions[i].isActive
     /\ (sessionId # Null => sessions[i].sessionId # sessionId)}

\* changePassword (use case).  userRepository.save runs in a transaction of
\* its own (_update) and revokeAllForUser in none, so each is persisted as
\* soon as it returns; the transaction the use case begins, commits or
\* rolls back holds no statement.
changeUserPassword(userId, currentPassword, newPassword, sessionId, fault) ==
  \E checks \in {ChangeOutcome(userId, currentPassword, newPassword)} :
  \E result \in {IF checks = Ok /\ fault # "none" THEN ErrPersistence
                 ELSE checks} :
  \E saved \in {checks = Ok /\ fault # "save"} :
  \E revoked \in {saved /\ fault # "revokeAllForUser"} :
  \E changed \in {IF saved
                  THEN changePassword(users[userId], BcryptHash(newPassword))
                  ELSE users[userId]} :
    /\ users' = IF saved
                THEN [users EXCEPT ![userId] = toPersistence(changed)]
                ELSE users
    /\ sessions' = IF revoked
                   THEN revokeAllForUser(sessions, userId, sessionId)
                   ELSE sessions
    /\ published' = PublishedAfterSave(result = Ok,
                                       IF checks = Ok
                                       THEN EventsOf(changePassword(
                                              users[userId],
                                              BcryptHash(newPassword)).domainEvents)
                                       ELSE {})
    /\ lastCall' = [op |-> "UserApplicationService.changePassword",
                    result |-> result, userId |-> userId, fault |-> fault,
                    userBefore |-> users[userId],
                    targeted |-> Targeted(userId, sessionId)]

ChangeUserPassword(userId, currentPassword, newPassword, sessionId, fault) ==
  /\ Len(users[userId].passwordHistory) < MaxPasswordChanges
  /\ changeUserPassword(userId, currentPassword, newPassword, sessionId, fault)
  /\ UNCHANGED <<now, otpCache, rateLimit, nextVid, issued, nextJti, entity,
                 verified, wrongRun, failRun, superseded, replaced,
                 userSession, secrets, calls, sent, subscribers>>

NextPassword ==
  \/ \E device \in Devices :
       LoginUser(PhoneA, CC86, PasswordA, Null, "", device)
  \/ \E userId \in {1}, currentPassword \in {PasswordA, PasswordB},
        newPassword \in {PasswordB, PasswordWeak},
        sessionId \in {Null, SessionIdOf(1)}, fault \in Faults :
       ChangeUserPassword(userId, currentPassword, newPassword, sessionId,
                          fault)
  \/ Tick

SpecPassword == Init /\ [][NextPassword]_vars

\* C16: whatever step of changePassword fails (user save, revokeAllForUser,
\* commit), the persisted state is either 'password hash updated and the
\* targeted sessions revoked' or 'account unchanged and no targeted session
\* revoked'.
C16_Atomicity ==
  lastCall.op = "UserApplicationService.changePassword"
  => \/ /\ users[lastCall.userId] # lastCall.userBefore
        /\ \A i \in lastCall.targeted : ~sessions[i].isActive
     \/ /\ users[lastCall.userId] = lastCall.userBefore
        /\ \A i \in lastCall.targeted : sessions[i].isActive

\* C39: after a successful changePassword the new password differs from the
\* immediately preceding one: no password matches both the hash the account
\* had before the call and the hash it has after it.
C39_NoReuseOfCurrent ==
  (/\ lastCall.op = "UserApplicationService.changePassword"
   /\ lastCall.result = Ok)
  => ~\E password \in {PasswordA, PasswordB} :
        /\ comparePassword(password, lastCall.userBefore.passwordHash)
        /\ comparePassword(password, users[lastCall.userId].passwordHash)

(***************************************************************************)
(* AuthenticationApplicationService: the OTP-backed use cases              *)
(***************************************************************************)
ErrAlreadyRegistered == "Phone number already registered"

\* what a request*Otp call that threw before sendOtp records
OtpRequestFailed(op, phone, type, err) ==
  /\ lastCall' = [op |-> op, result |-> err, phone |-> phone, type |-> type,
                  vid |-> Null]
  /\ UNCHANGED <<otpCache, rateLimit, nextVid>>

requestRegistrationOtp(phone, countryCode) ==
  \E pv \in {validatePhoneNumber(phone, countryCode)} :
    IF pv.err # Ok
    THEN OtpRequestFailed("requestRegistrationOtp", phone, "registration",
                          pv.err)
    ELSE IF findByPhoneHash(users, hash(pv.e164)) # {}
    THEN OtpRequestFailed("requestRegistrationOtp", phone, "registration",
                          ErrAlreadyRegistered)
    ELSE DoSendOtp("requestRegistrationOtp", phone, countryCode,
                   "registration", Null)

requestLoginOtp(phone, countryCode) ==
  \E pv \in {validatePhoneNumber(phone, countryCode)} :
  \E found \in {IF pv.err = Ok THEN findByPhoneHash(users, hash(pv.e164))
                ELSE {}} :
    IF pv.err # Ok
    THEN OtpRequestFailed("requestLoginOtp", phone, "login", pv.err)
    ELSE IF found = {}
    THEN OtpRequestFailed("requestLoginOtp", phone, "login", ErrUserNotFound)
    ELSE IF ~canLogin(users[CHOOSE i \in found : TRUE])
    THEN OtpRequestFailed("requestLoginOtp", phone, "login", ErrCannotLogin)
    ELSE DoSendOtp("requestLoginOtp", phone, countryCode, "login",
                   CHOOSE i \in found : TRUE)

requestPasswordResetOtp(phone, countryCode) ==
  \E pv \in {validatePhoneNumber(phone, countryCode)} :
  \E found \in {IF pv.err = Ok THEN findByPhoneHash(users, hash(pv.e164))
                ELSE {}} :
    IF pv.err # Ok
    THEN OtpRequestFailed("requestPasswordResetOtp", phone, "password_reset",
                          pv.err)
    ELSE IF found = {}
    THEN OtpRequestFailed("requestPasswordResetOtp", phone, "password_reset",
                          ErrUserNotFound)
    ELSE DoSendOtp("requestPasswordResetOtp", phone, countryCode,
                   "password_reset", CHOOSE i \in found : TRUE)

RequestRegistrationOtp(phone, countryCode) ==
  /\ requestRegistrationOtp(phone, countryCode)
  /\ UNCHANGED <<now, users, sessions, issued, nextJti, published, entity,
                 verified, wrongRun, failRun, superseded, replaced, userSession,
                 secrets, calls, sent, subscribers>>

RequestLoginOtp(phone, countryCode) ==
  /\ requestLoginOtp(phone, countryCode)
  /\ UNCHANGED <<now, users, sessions, issued, nextJti, published, entity,
                 verified, wrongRun, failRun, superseded, replaced, userSession,
                 secrets, calls, sent, subscribers>>

RequestPasswordResetOtp(phone, countryCode) ==
  /\ requestPasswordResetOtp(phone, countryCode)
  /\ UNCHANGED <<now, users, sessions, issued, nextJti, published, entity,
                 verified, wrongRun, failRun, superseded, replaced, userSession,
                 secrets, calls, sent, subscribers>>

\* the id the store gives the next created account
NextUserId == CHOOSE id \in UserIds :
                /\ ~users[id].exists
                /\ \A j \in 1..(id - 1) : users[j].exists

\* the active sessions of an account
ActiveOf(userId) ==
  {i \in DOMAIN sessions : sessions[i].userId = userId /\ sessions[i].isActive}

\* the challenge under `vid` is stored, unexpired and untried, and was
\* issued by sendOtp(phone, countryCode, type)
IssuedFor(vid, phone, countryCode, type) ==
  /\ OtpLive(otpCache, vid)
  /\ otpCache[vid].value.phone = phone
  /\ otpCache[vid].value.countryCode = countryCode
  /\ otpCache[vid].value.type = type
  /\ otpCache[vid].value.attempts = 0

\* the hash verifyOtp derives from the phone stored under `vid`
DerivedHash(vid) ==
  IF CacheHas(otpCache, vid) THEN HashPhone(otpCache[vid].value.phone)
  ELSE Sha256(<<>>)

RegisterCall(result, phone, password, vid, otpCode, unregistered, issuedFor,
             expectedHash, userId, tokens, sessionId) ==
  [op |-> "registerUser", result |-> result, phone |-> phone,
   password |-> password, vid |-> vid, otpCode |-> otpCode,
   unregistered |-> unregistered, issuedFor |-> issuedFor,
   challengeType |-> ChallengeType(vid),
   derivedHash |-> DerivedHash(vid), expectedHash |-> expectedHash,
   userId |-> userId, refresh_token |-> tokens, session_id |-> sessionId]

\* lines 353-381: the account is created and saved, and a session created
Registered(call, e164, password, deviceId, tokens) ==
  /\ \E id \in UserIds : ~users[id].exists
  /\ Len(sessions) < MaxSessions
  /\ nextJti < MaxTokens
  /\ users' = [users EXCEPT ![NextUserId] =
                 toPersistence(NewUser(NextUserId, e164, hash(e164),
                                       BcryptHash(password)))]
  /\ sessions' = _createUserSession(sessions, NextUserId, deviceId,
                                    nextJti + 1)
  /\ issued' = issued \cup {tokens.access_token, tokens.refresh_token}
  /\ nextJti' = nextJti + 1
  /\ lastCall' = [call EXCEPT !.userId = NextUserId,
                              !.refresh_token = tokens.refresh_token,
                              !.session_id = SessionIdOf(Len(sessions) + 1)]
  /\ UNCHANGED published

registerUser(phone, countryCode, password, verificationId, otpCode, deviceId) ==
  \E pv \in {validatePhoneNumber(phone, countryCode)} :
  \E unregistered \in {/\ pv.err = Ok
                       /\ findByPhoneHash(users, hash(pv.e164)) = {}} :
  \E expectedHash \in {IF pv.err = Ok THEN hash(pv.e164) ELSE Sha256(<<>>)} :
  \E otp \in {IF unregistered
              THEN VerifyOtpOutcome(otpCache, verificationId, otpCode,
                                    expectedHash)
              ELSE [result |-> Ok, cache |-> otpCache]} :
  \E result \in {IF pv.err # Ok THEN pv.err
                 ELSE IF ~unregistered THEN ErrAlreadyRegistered
                 ELSE IF otp.result # Ok THEN otp.result
                 ELSE validatePassword(password)} :
  \E call \in {RegisterCall(result, phone, password, verificationId, otpCode,
                            unregistered,
                            IssuedFor(verificationId, phone, countryCode,
                                      "registration"),
                            expectedHash, Null, NoToken, Null)} :
    /\ otpCache' = otp.cache
    /\ verified' = IF unregistered
                   THEN VerifiedAfter(verificationId, otp.result)
                   ELSE verified
    /\ wrongRun' = IF unregistered
                   THEN WrongRunAfter(verificationId, otpCode)
                   ELSE wrongRun
    /\ IF result = Ok
       THEN Registered(call, pv.e164, password, deviceId,
                       SessionTokens(NextUserId, deviceId, nextJti + 1))
       ELSE /\ lastCall' = call
            /\ UNCHANGED <<users, sessions, issued, nextJti, published>>

RegisterUser(phone, countryCode, password, verificationId, otpCode, deviceId) ==
  /\ registerUser(phone, countryCode, password, verificationId, otpCode,
                  deviceId)
  /\ UNCHANGED <<now, rateLimit, nextVid, entity, failRun, superseded, replaced, userSession,
                 secrets, calls, sent, subscribers>>

\* verifyResetOtp: the reset token carries the E.164 phone and the
\* verification id
verifyResetOtp(phone, countryCode, verificationId, otpCode) ==
  \E pv \in {validatePhoneNumber(phone, countryCode)} :
  \E otp \in {IF pv.err = Ok
              THEN VerifyOtpOutcome(otpCache, verificationId, otpCode,
                                    hash(pv.e164))
              ELSE [result |-> pv.err, cache |-> otpCache]} :
    /\ otpCache' = otp.cache
    /\ verified' = IF pv.err = Ok
                   THEN VerifiedAfter(verificationId, otp.result)
                   ELSE verified
    /\ wrongRun' = IF pv.err = Ok THEN WrongRunAfter(verificationId, otpCode)
                   ELSE wrongRun
    /\ issued' = IF otp.result = Ok
                 THEN issued \cup
                      {generatePasswordResetToken(pv.e164, verificationId)}
                 ELSE issued
    /\ lastCall' = [op |-> "verifyResetOtp", result |-> otp.result,
                    phone |-> phone, vid |-> verificationId,
                    challengeType |-> ChallengeType(verificationId),
                    reset_token |->
                      IF otp.result = Ok
                      THEN generatePasswordResetToken(pv.e164, verificationId)
                      ELSE NoToken]

VerifyResetOtp(phone, countryCode, verificationId, otpCode) ==
  /\ verifyResetOtp(phone, countryCode, verificationId, otpCode)
  /\ UNCHANGED <<now, rateLimit, nextVid, users, sessions, nextJti, published,
                 entity, failRun, superseded, replaced, userSession,
                 secrets, calls, sent, subscribers>>

\* resetPassword, lines 606-628: the checks, in the order they are made;
\* the token's payload is read for nothing but its validity
ResetOutcome(pv, found, resetToken, newPassword) ==
  IF verifyPasswordResetToken(resetToken) # Ok
  THEN verifyPasswordResetToken(resetToken)
  ELSE IF pv.err # Ok THEN pv.err
  ELSE IF found = {} THEN ErrUserNotFound
  ELSE IF validatePassword(newPassword) # Ok THEN validatePassword(newPassword)
  ELSE IF isPasswordInHistory(newPassword,
                              users[CHOOSE i \in found : TRUE].passwordHistory)
  THEN ErrPasswordReused
  ELSE Ok

\* resetPassword; `fault` names the persistence call that throws, if any
resetPasswordUnder(fault, phone, countryCode, resetToken, newPassword) ==
  \E pv \in {validatePhoneNumber(phone, countryCode)} :
  \E found \in {IF pv.err = Ok THEN findByPhoneHash(users, hash(pv.e164))
                ELSE {}} :
  \E id \in IF found = {} THEN {Null} ELSE found :
  \E checks \in {ResetOutcome(pv, found, resetToken, newPassword)} :
  \E result \in {IF checks = Ok /\ fault # "none" THEN ErrPersistence
                 ELSE checks} :
    /\ lastCall' = [op |-> "resetPassword", result |-> result,
                    userId |-> id, token |-> resetToken,
                    hashBefore |-> IF id = Null THEN <<>>
                                   ELSE users[id].passwordHash,
                    sessionsBefore |-> sessions]
    /\ IF checks = Ok
       THEN \E changed \in {changePassword(users[id],
                                           BcryptHash(newPassword))} :
              /\ users' = IF fault # "save"
                          THEN [users EXCEPT ![id] = toPersistence(changed)]
                          ELSE users
              /\ sessions' = IF fault \notin {"save", "revokeAllForUser"}
                             THEN revokeAllForUser(sessions, id, Null)
                             ELSE sessions
              /\ published' = PublishedAfterSave(
                                result = Ok,
                                {changed.domainEvents[Len(changed.domainEvents)]})
       ELSE UNCHANGED <<users, sessions, published>>

resetPassword(phone, countryCode, resetToken, newPassword) ==
  resetPasswordUnder("none", phone, countryCode, resetToken, newPassword)

ResetPassword(phone, countryCode, resetToken, newPassword) ==
  /\ resetPassword(phone, countryCode, resetToken, newPassword)
  /\ UNCHANGED <<now, otpCache, rateLimit, nextVid, issued, nextJti, entity,
                 verified, wrongRun, failRun, superseded, replaced, userSession,
                 secrets, calls, sent, subscribers>>

(***************************************************************************)
(* SpecFlow: registration as the service runs it                           *)
(***************************************************************************)
RegisterPhones == {PhoneA, PhoneC, PhoneBad}

NextFlow ==
  \/ \E phone \in RegisterPhones : RequestRegistrationOtp(phone, CC86)
  \/ \E phone \in RegisterPhones, password \in {PasswordB, PasswordWeak},
        vid \in VerificationIds, otpCode \in OtpCodes :
       RegisterUser(phone, CC86, password, vid, otpCode, "device-1")
  \/ Tick

SpecFlow == Init /\ [][NextFlow]_vars

\* C6: for an unregistered valid phone, registerUser called with the phone
\* and country code a registration challenge was issued for, that
\* verification id, the issued code and a policy-compliant password
\* succeeds; the account is active and unverified and has exactly one active
\* session; and the hash the verifier derives from the stored phone equals
\* the expected hash the orchestration passes.
C6_Registration ==
  (/\ lastCall.op = "registerUser"
   /\ lastCall.unregistered
   /\ lastCall.issuedFor
   /\ lastCall.otpCode = mockOtpCode
   /\ validatePassword(lastCall.password) = Ok)
  => /\ lastCall.derivedHash = lastCall.expectedHash
     /\ lastCall.result = Ok
     /\ users[lastCall.userId].status = "active"
     /\ ~users[lastCall.userId].isVerified
     /\ Cardinality(ActiveOf(lastCall.userId)) = 1

(***************************************************************************)
(* SpecFlowOtp: OTP login and password reset; besides the service's own    *)
(* request*Otp calls, the OTP service is asked for challenges that carry   *)
(* the E.164 phone                                                         *)
(***************************************************************************)
NextFlowOtp ==
  \/ \E type \in {"login", "password_reset"} :
       SendOtp(CC86 \o PhoneA, CC86, type, 1)
  \/ RequestLoginOtp(PhoneA, CC86)
  \/ RequestPasswordResetOtp(PhoneA, CC86)
  \/ \E vid \in VerificationIds, otpCode \in OtpCodes :
       LoginUser(PhoneA, CC86, "", vid, otpCode, "device-1")
  \/ \E phone \in {PhoneA, PhoneB}, vid \in VerificationIds,
        otpCode \in OtpCodes :
       VerifyResetOtp(phone, CC86, vid, otpCode)
  \/ \E phone \in {PhoneA, PhoneB}, token \in issued :
       ResetPassword(phone, CC86, token, PasswordB)
  \/ Tick

SpecFlowOtp == Init /\ [][NextFlowOtp]_vars

\* C7: a resetPassword call whose phone names a registered account other
\* than the one whose phone the presented reset token carries fails and
\* leaves that account's password hash and the sessions as they were.
C7_ResetTokenScoping ==
  (/\ lastCall.op = "resetPassword"
   /\ lastCall.userId # Null
   /\ lastCall.token.type = "password_reset"
   /\ lastCall.token.phone # users[lastCall.userId].phone)
  => /\ lastCall.result # Ok
     /\ users[lastCall.userId].passwordHash = lastCall.hashBefore
     /\ sessions = lastCall.sessionsBefore

\* C8: verifyResetOtp returns a reset token, loginUser authenticates by OTP
\* and registerUser succeeds only on a challenge issued for their own
\* purpose.
C8_PurposeBinding ==
  /\ (lastCall.op = "verifyResetOtp" /\ lastCall.result = Ok)
     => lastCall.challengeType = "password_reset"
  /\ (lastCall.op = "loginUser" /\ lastCall.result = Ok
        /\ lastCall.challengeType # "none")
     => lastCall.challengeType = "login"
  /\ (lastCall.op = "registerUser" /\ lastCall.result = Ok)
     => lastCall.challengeType = "registration"

(***************************************************************************)
(* SpecRegister: registerUser calls that interleave. Each call runs up to  *)
(* an await and other calls run in between; the OTP service is asked for   *)
(* registration challenges that carry the E.164 phone.                     *)
(***************************************************************************)
ErrUniqueConstraint == "SequelizeUniqueConstraintError: Validation error"

\* the unique index on users.phone_hash, as INSERT checks it
UniqueViolationNever(rows, phoneHash) == FALSE
UniqueViolation(rows, phoneHash) == findByPhoneHash(rows, phoneHash) # {}

\* what no step of registerUser changes
RegisterFrame ==
  UNCHANGED <<now, rateLimit, nextVid, entity, wrongRun, failRun, superseded,
              replaced, userSession, secrets, sent, subscribers>>

\* the call of caller c has thrown `err`: rollbackTransaction, rethrow
RegisterThrows(c, err) ==
  /\ calls' = [calls EXCEPT ![c] = Idle]
  /\ lastCall' = [op |-> "registerUser", result |-> err, caller |-> c,
                  phoneHash |-> calls[c].phoneHash, userId |-> Null,
                  overlapped |-> calls[c].overlapped,
                  savedUser |-> calls[c].userId]

\* the other calls in progress that registered the same phone hash for
\* creation
Overlapping(c, phoneHash) ==
  {d \in Callers \ {c} : /\ calls[d].pc # "idle"
                         /\ calls[d].phoneHash = phoneHash}

\* lines 333-344: the phone is validated and looked up
RegisterUserFind(c, phone, countryCode, password, vid, otpCode, deviceId) ==
  /\ calls[c].pc = "idle"
  /\ \E pv \in {validatePhoneNumber(phone, countryCode)} :
     \E phoneHash \in {IF pv.err = Ok THEN hash(pv.e164) ELSE Sha256(<<>>)} :
     \E err \in {IF pv.err # Ok THEN pv.err
                 ELSE IF findByPhoneHash(users, phoneHash) # {}
                 THEN ErrAlreadyRegistered
                 ELSE Ok} :
       IF err # Ok
       THEN /\ lastCall' = [op |-> "registerUser", result |-> err,
                            caller |-> c, phoneHash |-> phoneHash,
                            userId |-> Null, overlapped |-> FALSE,
                            savedUser |-> Null]
            /\ UNCHANGED calls
       ELSE /\ calls' = [calls EXCEPT ![c] =
                           [pc |-> "found", e164 |-> pv.e164,
                            phoneHash |-> phoneHash, password |-> password,
                            verificationId |-> vid,
                            otpCode |-> otpCode, deviceId |-> deviceId,
                            userId |-> Null,
                            overlapped |-> Overlapping(c, phoneHash) # {}]]
            /\ UNCHANGED lastCall
  /\ UNCHANGED <<otpCache, users, sessions, issued, nextJti, published,
                 verified>>
  /\ RegisterFrame

\* lines 347-351: the OTP is verified, the password validated and hashed
RegisterUserVerify(c) ==
  /\ calls[c].pc = "found"
  /\ \E otp \in {VerifyOtpOutcome(otpCache, calls[c].verificationId,
                                  calls[c].otpCode, calls[c].phoneHash)} :
     \E err \in {IF otp.result # Ok THEN otp.result
                 ELSE validatePassword(calls[c].password)} :
       /\ otpCache' = otp.cache
       /\ verified' = VerifiedAfter(calls[c].verificationId, otp.result)
       /\ IF err # Ok
          THEN RegisterThrows(c, err)
          ELSE /\ calls' = [calls EXCEPT ![c].pc = "verified"]
               /\ UNCHANGED lastCall
  /\ UNCHANGED <<users, sessions, issued, nextJti, published>>
  /\ RegisterFrame

\* lines 353-363, UserMySQLAdapter._create: the row is inserted, unless the
\* unique index on phone_hash rejects it
RegisterUserSave(c) ==
  /\ calls[c].pc = "verified"
  /\ IF UniqueViolation(users, calls[c].phoneHash)
     THEN /\ RegisterThrows(c, ErrUniqueConstraint)
          /\ UNCHANGED users
     ELSE /\ \E id \in UserIds : ~users[id].exists
          /\ users' = [users EXCEPT ![NextUserId] =
                         toPersistence(NewUser(NextUserId, calls[c].e164,
                                               calls[c].phoneHash,
                                               BcryptHash(calls[c].password)))]
          /\ calls' = [calls EXCEPT ![c].pc = "saved",
                                    ![c].userId = NextUserId]
          /\ UNCHANGED lastCall
  /\ UNCHANGED <<otpCache, sessions, issued, nextJti, published, verified>>
  /\ RegisterFrame

\* lines 365-381: the session is created, the transaction committed and
\* the account's domain events are published
RegisterUserFinish(c) ==
  /\ calls[c].pc = "saved"
  /\ Len(sessions) < MaxSessions
  /\ nextJti < MaxTokens
  /\ \E tokens \in {SessionTokens(calls[c].userId, calls[c].deviceId,
                                  nextJti + 1)} :
       /\ sessions' = _createUserSession(sessions, calls[c].userId,
                                         calls[c].deviceId, nextJti + 1)
       /\ issued' = issued \cup {tokens.access_token, tokens.refresh_token}
  /\ nextJti' = nextJti + 1
  /\ published' = published \cup
                    EventsOf(NewUser(calls[c].userId, calls[c].e164,
                                     calls[c].phoneHash,
                                     BcryptHash(calls[c].password)).domainEvents)
  /\ calls' = [calls EXCEPT ![c] = Idle]
  /\ lastCall' = [op |-> "registerUser", result |-> Ok, caller |-> c,
                  phoneHash |-> calls[c].phoneHash,
                  userId |-> calls[c].userId,
                  overlapped |-> calls[c].overlapped,
                  savedUser |-> calls[c].userId]
  /\ UNCHANGED <<otpCache, users, verified>>
  /\ RegisterFrame

\* lines 365-386 when sessionRepository.save ("saveSession") or
\* commitTransaction ("commit") throws: rollbackTransaction rolls back the
\* transaction the use case began, which holds no statement (the account
\* and the session were each inserted and committed by their own save),
\* and the error is rethrown
RegisterUserFinishFails(c, fault) ==
  /\ calls[c].pc = "saved"
  /\ Len(sessions) < MaxSessions
  /\ nextJti < MaxTokens
  /\ sessions' = IF fault = "commit"
                 THEN _createUserSession(sessions, calls[c].userId,
                                         calls[c].deviceId, nextJti + 1)
                 ELSE sessions
  /\ nextJti' = nextJti + 1
  /\ RegisterThrows(c, ErrPersistence)
  /\ UNCHANGED <<otpCache, users, issued, published, verified>>
  /\ RegisterFrame

\* otpService.sendOtp for a registration, with the E.164 phone
SendRegistrationOtp(phone) ==
  /\ DoSendOtpWithin(MaxChallenges, "sendOtp", phone, CC86, "registration",
                     Null)
  /\ UNCHANGED <<now, users, sessions, issued, nextJti, published, entity,
                 verified, wrongRun, failRun, superseded, replaced,
                 userSession, secrets, calls, sent, subscribers>>

\* the store holds one account; two more can be created
InitRegister ==
  /\ ConstructedOver([SeedUsers EXCEPT ![1] = NoUser])
  /\ otpCache = [v \in 1..MaxChallenges |-> NoEntry]
  /\ secrets = DistinctSecrets

NextRegister ==
  \/ \E phone \in {PhoneA, PhoneC} : SendRegistrationOtp(CC86 \o phone)
  \/ \E c \in Callers, phone \in {PhoneA, PhoneB, PhoneC},
        vid \in 1..MaxChallenges :
       RegisterUserFind(c, phone, CC86, PasswordA, vid, mockOtpCode,
                        "device-1")
  \/ \E c \in Callers : RegisterUserVerify(c)
  \/ \E c \in Callers : RegisterUserSave(c)
  \/ \E c \in Callers : RegisterUserFinish(c)
  \/ \E c \in Callers, fault \in {"saveSession", "commit"} :
       RegisterUserFinishFails(c, fault)

SpecRegister == InitRegister /\ [][NextRegister]_vars

\* C22: however registerUser calls follow one another or interleave, no two
\* accounts of the store have the same phone hash.
C22_PhoneHashUnique ==
  \A i, j \in UserIds :
    (users[i].exists /\ users[j].exists
       /\ users[i].phoneHash = users[j].phoneHash)
    => i = j

\* two calls for one phone overlapped, each verified its own challenge; one
\* created the account and the other was rejected by the store
C22_Witness ==
  /\ lastCall.op = "registerUser"
  /\ lastCall.result = ErrUniqueConstraint
  /\ lastCall.overlapped
  /\ verified = {1, 2}
  /\ Cardinality(findByPhoneHash(users, lastCall.phoneHash)) = 1

\* C37: after a registerUser call that failed, at whatever step, the store
\* holds no account row and no session row created by that call.
C37_FailedRegistrationLeavesNothing ==
  (lastCall.op = "registerUser" /\ lastCall.result # Ok)
  => \/ lastCall.savedUser = Null
     \/ /\ ~users[lastCall.savedUser].exists
        /\ \A i \in DOMAIN sessions :
             sessions[i].userId # lastCall.savedUser

\* C26: after every successful registerUser call, a 'UserRegistered' event
\* for the new account has been handed to the event publisher.
C26_RegistrationEvent ==
  (lastCall.op = "registerUser" /\ lastCall.result = Ok)
  => \E event \in published : /\ event.type = "UserRegistered"
                              /\ event.aggregateId = lastCall.userId

(***************************************************************************)
(* SpecLock: one account under every service operation that loads and      *)
(* saves it, one call after another                                        *)
(***************************************************************************)
\* suspendUser / verifyUser: the account is looked up by id, the entity
\* operation runs (it throws `err` unless `guard`), the account is saved,
\* its sessions are revoked (suspendUser only) and the event is published
\* `fault` names the persistence call that throws, if any
AdminAccountChangeUnder(fault, op, userId, guard, err, after, revokes) ==
  \E checks \in {IF ~users[userId].exists THEN ErrUserNotFound
                 ELSE IF ~guard THEN err
                 ELSE Ok} :
  \E result \in {IF checks = Ok /\ fault = "save" THEN ErrPersistence
                 ELSE IF checks = Ok /\ revokes
                         /\ fault = "revokeAllForUser"
                 THEN ErrPersistence
                 ELSE checks} :
    /\ users' = IF checks = Ok /\ fault # "save"
                THEN [users EXCEPT ![userId] = toPersistence(after)]
                ELSE users
    /\ sessions' = IF result = Ok /\ revokes
                   THEN revokeAllForUser(sessions, userId, Null)
                   ELSE sessions
    /\ published' = PublishedAfterSave(result = Ok,
                                       IF checks = Ok
                                       THEN EventsOf(after.domainEvents)
                                       ELSE {})
    /\ lastCall' = [op |-> op, result |-> result, userId |-> userId,
                    fault |-> fault]
    /\ UNCHANGED <<now, otpCache, rateLimit, nextVid, issued, nextJti, entity,
                   verified, wrongRun, failRun, superseded, replaced,
                   userSession, secrets, calls, sent, subscribers>>

AdminAccountChange(op, userId, guard, err, after, revokes) ==
  AdminAccountChangeUnder("none", op, userId, guard, err, after, revokes)

SuspendUser(userId, reason, durationDays) ==
  AdminAccountChange("suspendUser", userId, canSuspend(users[userId]),
                     ErrAlreadySuspended,
                     suspend(users[userId], reason, durationDays), TRUE)

VerifyUser(userId) ==
  AdminAccountChange("verifyUser", userId, canVerify(users[userId]),
                     ErrAlreadyVerified, verify(users[userId]), FALSE)

NextLock ==
  \/ \E password \in {PasswordA, PasswordB} :
       LoginUser(PhoneA, CC86, password, Null, "", "device-1")
  \/ LoginUser(PhoneA, CC86, "", 1, mockOtpCode, "device-1")
  \/ \E type \in {"login", "password_reset"} :
       SendOtp(CC86 \o PhoneA, CC86, type, 1)
  \/ VerifyResetOtp(PhoneA, CC86, 1, mockOtpCode)
  \/ \E token \in issued : ResetPassword(PhoneA, CC86, token, PasswordB)
  \/ \E currentPassword \in {PasswordA, PasswordB} :
       ChangeUserPassword(1, currentPassword, PasswordB, Null, "none")
  \/ SuspendUser(1, "abuse", 1)
  \/ VerifyUser(1)

SpecLock == Init /\ [][NextLock]_vars

\* C23: failedLoginAttempts of an account decreases only in a successful
\* loginUser call for that account, which an account at 5 or more never
\* gets; so from 5 failed attempts on, no service operation brings the
\* count below 5 or makes canLogin() true.
C23_LockPersists ==
  [][\A id \in UserIds :
       users[id].exists
       => /\ users'[id].failedLoginAttempts < users[id].failedLoginAttempts
               => /\ lastCall'.op = "loginUser"
                  /\ lastCall'.result = Ok
                  /\ lastCall'.userId = id
                  /\ users[id].failedLoginAttempts < LockThreshold
          /\ users[id].failedLoginAttempts >= LockThreshold
               => /\ users'[id].failedLoginAttempts >= LockThreshold
                  /\ ~canLogin(users[id])']_vars

\* a locked account whose password has been reset still cannot log in
C23_Witness ==
  /\ lastCall.op = "resetPassword"
  /\ lastCall.result = Ok
  /\ users[lastCall.userId].failedLoginAttempts >= LockThreshold
  /\ users[lastCall.userId].status = "active"
  /\ ~canLogin(users[lastCall.userId])

(***************************************************************************)
(* SpecPhone: validatePhoneNumber on its own, and on its own result        *)
(***************************************************************************)
\* national numbers: three mainland mobiles, two Hong Kong mobiles, a Macau
\* mobile, a Taiwan mobile, a Hong Kong landline and a number too short
PhoneHK == <<"9", "1", "2", "3", "4", "5", "6", "7">>
PhoneHK5 == <<"5", "1", "2", "3", "4", "5", "6", "7">>
PhoneMO == <<"6", "6", "1", "2", "3", "4", "5", "6">>
PhoneTW == <<"9", "1", "2", "3", "4", "5", "6", "7", "8">>
PhoneLandline == <<"2", "3", "4", "5", "6", "7", "8", "9">>

Nationals ==
  {PhoneA, PhoneB, PhoneC, PhoneHK, PhoneHK5, PhoneMO, PhoneTW, PhoneLandline,
   PhoneBad}

\* the ways a caller writes a number: bare, with a separator after the third
\* digit, or in E.164 with one of the supported country codes
Separated(national, separator) ==
  SubSeq(national, 1, 3) \o <<separator>> \o SubSeq(national, 4, Len(national))

PhoneInputs ==
  Nationals
    \cup {Separated(n, sep) : n \in Nationals, sep \in {"-", " "}}
    \cup {cc \o n : cc \in supportedCountryCodes, n \in Nationals}
    \cup {<<>>}

CountryInputs == supportedCountryCodes \cup {<<"+", "1">>, <<>>}

PhoneFrame ==
  UNCHANGED <<now, otpCache, rateLimit, nextVid, users, sessions, issued,
              nextJti, published, entity, verified, wrongRun, failRun,
              superseded, replaced, userSession, secrets, calls, sent,
                 subscribers>>

\* validatePhoneNumber(phoneNumber, countryCode)
ValidatePhoneNumber(phoneNumber, countryCode) ==
  /\ lastCall' = [op |-> "validatePhoneNumber", phoneNumber |-> phoneNumber,
                  countryCode |-> countryCode,
                  result |-> validatePhoneNumber(phoneNumber, countryCode)]
  /\ PhoneFrame

\* validatePhoneNumber(e164, countryCode), on the e164 of the accepted
\* number the last call returned, with the same country code
ValidateNormalized ==
  /\ lastCall.op = "validatePhoneNumber"
  /\ lastCall.result.err = Ok
  /\ lastCall' = [op |-> "validateNormalized",
                  phoneNumber |-> lastCall.result.e164,
                  countryCode |-> lastCall.countryCode,
                  first |-> lastCall.result,
                  result |-> validatePhoneNumber(lastCall.result.e164,
                                                 lastCall.countryCode)]
  /\ PhoneFrame

NextPhone ==
  \/ \E phoneNumber \in PhoneInputs, countryCode \in CountryInputs :
       ValidatePhoneNumber(phoneNumber, countryCode)
  \/ ValidateNormalized

SpecPhone == Init /\ [][NextPhone]_vars

\* C24: the e164 form of an accepted (phone, countryCode), validated again
\* with the same country code, is accepted and yields the same e164 form.
C24_NormalizationIdempotent ==
  lastCall.op = "validateNormalized"
  => /\ lastCall.result.err = Ok
     /\ lastCall.result.e164 = lastCall.first.e164

(***************************************************************************)
(* SpecEvents: InMemoryEventAdapter (subscribe / unsubscribe / publish)    *)
(***************************************************************************)
ErrInvalidEvent == "Invalid event: missing type"

\* handlers, by what a call of the handler does: it returns, it throws
\* before its first await, or the promise it returns rejects
Handlers ==
  {[name |-> "h1", behaviour |-> "returns"],
   [name |-> "h2", behaviour |-> "throws"],
   [name |-> "h3", behaviour |-> "rejects"]}

EventTypes == {"UserRegistered", "SessionRevoked"}

\* publish, lines 28-30: the type's subscribers, then the wildcard's
AllSubscribers(eventType) ==
  (IF eventType \in SubscriptionKeys THEN subscribers[eventType] ELSE <<>>)
    \o subscribers["*"]

\* the subscribers of a list whose handler fails
Failing(allSubscribers) ==
  {i \in DOMAIN allSubscribers :
     allSubscribers[i].handler.behaviour # "returns"}

\* a dispatch that gives up at the first handler that fails
DispatchAborting(allSubscribers) ==
  LET failing == Failing(allSubscribers)
      last == IF failing = {} THEN Len(allSubscribers)
              ELSE CHOOSE i \in failing : \A j \in failing : i <= j
  IN [invoked |-> [i \in 1..last |-> allSubscribers[i].handler.name],
      failed |-> failing \cap 1..last,
      result |-> IF failing = {} THEN Ok ELSE "handler failed"]

\* publish, lines 33-42: every subscriber's handler is called inside its
\* own try / catch, and the calls are awaited together
Dispatch(allSubscribers) ==
  [invoked |-> [i \in DOMAIN allSubscribers |->
                  allSubscribers[i].handler.name],
   failed |-> Failing(allSubscribers),
   result |-> Ok]

EventsFrame ==
  UNCHANGED <<now, otpCache, rateLimit, nextVid, users, sessions, issued,
              nextJti, entity, verified, wrongRun, failRun, superseded,
              replaced, userSession, secrets, calls, sent>>

\* publish(event)
Publish(event) ==
  /\ IF event.type = ""
     THEN /\ lastCall' = [op |-> "publish", event |-> event,
                          result |-> ErrInvalidEvent, invoked |-> <<>>,
                          failed |-> {}]
          /\ UNCHANGED published
     ELSE \E out \in {Dispatch(AllSubscribers(event.type))} :
            /\ published' = published \cup {event}
            /\ lastCall' = [op |-> "publish", event |-> event,
                            result |-> out.result, invoked |-> out.invoked,
                            failed |-> out.failed]
  /\ UNCHANGED subscribers
  /\ EventsFrame

\* subscribe(eventType, handler)
Subscribe(eventType, handler) ==
  /\ Len(subscribers[eventType]) < MaxSubscriptions
  /\ subscribers' = [subscribers EXCEPT ![eventType] =
                       Append(@, [handler |-> handler])]
  /\ lastCall' = [op |-> "subscribe", eventType |-> eventType,
                  result |-> Ok]
  /\ UNCHANGED published
  /\ EventsFrame

\* unsubscribe(eventType, handler): the first subscription of the handler
\* is spliced out
Unsubscribe(eventType, handler) ==
  LET subs == subscribers[eventType]
      found == {i \in DOMAIN subs : subs[i].handler = handler}
      index == CHOOSE i \in found : \A j \in found : i <= j
  IN
  /\ subscribers' = IF found = {} THEN subscribers
                    ELSE [subscribers EXCEPT ![eventType] =
                            SubSeq(subs, 1, index - 1)
                              \o SubSeq(subs, index + 1, Len(subs))]
  /\ lastCall' = [op |-> "unsubscribe", eventType |-> eventType,
                  result |-> IF found = {} THEN "false" ELSE "true"]
  /\ UNCHANGED published
  /\ EventsFrame

NextEvents ==
  \/ \E eventType \in SubscriptionKeys, handler \in Handlers :
       Subscribe(eventType, handler)
  \/ \E eventType \in SubscriptionKeys, handler \in Handlers :
       Unsubscribe(eventType, handler)
  \/ \E eventType \in EventTypes \cup {""} :
       Publish(DomainEvent(eventType, 1, "none"))

SpecEvents == Init /\ [][NextEvents]_vars

\* C25: publish of an event that has a type calls the handler of every
\* subscription to the event's type and to '*', once each and in the order
\* of the lists, whichever of the handlers throw or reject, and completes
\* without error.
C25_FanOutIsolation ==
  (lastCall.op = "publish" /\ lastCall.event.type # "")
  => /\ lastCall.result = Ok
     /\ Len(lastCall.invoked) = Len(AllSubscribers(lastCall.event.type))
     /\ \A i \in DOMAIN lastCall.invoked :
          lastCall.invoked[i] =
            AllSubscribers(lastCall.event.type)[i].handler.name

\* a handler of the event's type threw and a wildcard handler after it was
\* still called
C25_Witness ==
  /\ lastCall.op = "publish"
  /\ lastCall.event.type = "UserRegistered"
  /\ lastCall.result = Ok
  /\ 1 \in lastCall.failed
  /\ Len(subscribers["UserRegistered"]) = 1
  /\ Len(lastCall.invoked) >= 2
  /\ lastCall.invoked[2] = "h1"

(***************************************************************************)
(* SpecRevoke: refreshToken calls that interleave with revocations: other  *)
(* calls run between the load of the session and its save                  *)
(***************************************************************************)
\* refreshToken, lines 505-523: the token is verified, the session loaded
\* and checked, the new tokens generated and the loaded entity updated
RefreshLoad(c, token) ==
  /\ calls[c].pc = "idle"
  /\ token.sessionId # Null
  /\ \E found \in {findBySessionId(sessions, token.sessionId)} :
     \E result \in {IF verifyRefreshToken(token) # Ok
                    THEN verifyRefreshToken(token)
                    ELSE IF found = {} THEN ErrInvalidSession
                    ELSE IF ~isValid(sessions[CHOOSE j \in found : TRUE])
                    THEN ErrInvalidSession
                    ELSE Ok} :
       IF result # Ok
       THEN /\ lastCall' = [op |-> "refreshToken", result |-> result,
                            token |-> token]
            /\ UNCHANGED <<calls, issued, nextJti>>
       ELSE \E i \in found :
            \E newTokens \in {generateTokenPair(
                                [userId |-> token.userId,
                                 sessionId |-> sessions[i].sessionId,
                                 deviceId |-> token.deviceId],
                                nextJti + 1)} :
              /\ nextJti < MaxTokens
              /\ nextJti' = nextJti + 1
              /\ issued' = issued \cup {newTokens.access_token,
                                        newTokens.refresh_token}
              /\ calls' = [calls EXCEPT ![c] =
                             [pc |-> "loaded", token |-> token, row |-> i,
                              session |-> Rotate(sessions[i], newTokens)]]
              /\ UNCHANGED lastCall
  /\ UNCHANGED <<now, otpCache, rateLimit, nextVid, users, sessions,
                 published, entity, verified, wrongRun, failRun, superseded,
                 replaced, userSession, secrets, sent, subscribers>>

\* refreshToken, lines 525-534, SessionMySQLAdapter._update: every column of
\* the row is written from the entity, and the event is published
RefreshSave(c) ==
  /\ calls[c].pc = "loaded"
  /\ sessions' = [sessions EXCEPT ![calls[c].row] = calls[c].session]
  /\ published' = published \cup
                    {DomainEvent("SessionRefreshTokenUpdated",
                                 calls[c].session.sessionId, "")}
  /\ lastCall' = [op |-> "refreshToken", result |-> Ok,
                  token |-> calls[c].token, row |-> calls[c].row,
                  rowBefore |-> sessions[calls[c].row]]
  /\ calls' = [calls EXCEPT ![c] = Idle]
  /\ UNCHANGED <<now, otpCache, rateLimit, nextVid, users, issued, nextJti,
                 entity, verified, wrongRun, failRun, superseded, replaced,
                 userSession, secrets, sent, subscribers>>

NextRevoke ==
  \/ LoginUser(PhoneA, CC86, PasswordA, Null, "", "device-1")
  \/ \E i \in DOMAIN sessions : GenerateTokenPair(i)
  \/ \E c \in Callers,
        token \in {t \in issued : t.type = "refresh" /\ t.sessionId # Null} :
       RefreshLoad(c, token)
  \/ \E c \in Callers : RefreshSave(c)
  \/ \E token \in {t \in issued : t.type = "access" /\ t.sessionId # Null} :
       Logout(token, ErrInvalidSession)
  \/ SuspendUser(1, "abuse", 1)

SpecRevoke == Init /\ [][NextRevoke]_vars

\* C28: a session row that has been revoked (revoked_at set) is never
\* again active with revoked_at null, whatever call saves it next.
C28_RevocationTerminalInStore ==
  [][\A i \in DOMAIN sessions :
       sessions[i].revokedAt # Null
       => ~(sessions'[i].isActive /\ sessions'[i].revokedAt = Null)]_vars

(***************************************************************************)
(* SpecLogout: logout and verifyToken, with refreshToken calls in flight   *)
(***************************************************************************)
NextLogout ==
  \/ LoginUser(PhoneA, CC86, PasswordA, Null, "", "device-1")
  \/ \E i \in DOMAIN sessions : GenerateTokenPair(i)
  \/ \E c \in Callers,
        token \in {t \in issued : t.type = "refresh" /\ t.sessionId # Null} :
       RefreshLoad(c, token)
  \/ \E c \in Callers : RefreshSave(c)
  \/ \E token \in {t \in issued : t.type = "access" /\ t.sessionId # Null} :
       Logout(token, ErrInvalidSession)
  \/ \E token \in {t \in issued : t.type = "access" /\ t.sessionId # Null} :
       VerifyToken(token, ErrInvalidSession)

SpecLogout == Init /\ [][NextLogout]_vars

\* the sessions a logout call has revoked and returned for (it publishes
\* the revocation just before it returns)
LoggedOut ==
  {e.aggregateId : e \in {d \in published : /\ d.type = "SessionRevoked"
                                            /\ d.info = "user_logout"}}

\* C40: after logout has returned for a session, every later verifyToken
\* call with an access token that names the session fails with 'Invalid
\* session'.
C40_LogoutInvalidates ==
  (/\ lastCall.op = "verifyToken"
   /\ lastCall.token.sessionId \in LoggedOut)
  => lastCall.result = ErrInvalidSession

(***************************************************************************)
(* SpecLogin: loginUser calls of one account that interleave; other calls  *)
(* run between the reads and writes of a call (its awaits)                 *)
(***************************************************************************)
LoginFrame ==
  UNCHANGED <<now, otpCache, rateLimit, nextVid, entity, verified, wrongRun,
              superseded, replaced, userSession, secrets, sent, subscribers>>

\* the calls past their authentication that have not returned
InProgress == {c \in Callers : calls[c].pc # "idle"}

\* lines 431-477: the account is found, checked and authenticated by
\* password, and the failed or successful login is recorded and saved;
\* overlapped records whether a call ran while the other caller's present
\* or last call was in progress
LoginAuthenticate(c, phone, countryCode, password, deviceId) ==
  /\ calls[c].pc = "idle"
  /\ Len(sessions) + Cardinality(InProgress) < MaxSessions
  /\ nextJti + Cardinality(InProgress) < MaxTokens
  /\ \E pv \in {validatePhoneNumber(phone, countryCode)} :
     \E found \in {IF pv.err = Ok THEN findByPhoneHash(users, hash(pv.e164))
                   ELSE {}} :
     \E id \in IF found = {} THEN {Null} ELSE found :
     \E result \in {LoginOutcome(pv, found, password, Null, "")} :
     \E attempt \in {[phoneValid |-> pv.err = Ok, withPassword |-> TRUE,
                      passwordCorrect |-> result = Ok]} :
       IF result = ErrInvalidCredentials
       THEN /\ LoginFailed(id, recordFailedLogin(users[id]), deviceId,
                           attempt)
            /\ UNCHANGED calls
       ELSE IF result = Ok
       THEN /\ users' = [users EXCEPT ![id] = toPersistence(LoggedIn(users[id]))]
            /\ failRun' = [failRun EXCEPT ![id] = 0]
            /\ calls' = [d \in Callers |->
                           IF d = c
                           THEN [pc |-> "authenticated", userId |-> id,
                                 deviceId |-> deviceId,
                                 events |-> EventsOf(LoggedIn(users[id]).domainEvents),
                                 overlapped |-> InProgress # {}]
                           ELSE IF d \in InProgress
                           THEN [calls[d] EXCEPT !.overlapped = TRUE]
                           ELSE IF "overlapped" \in DOMAIN calls[d]
                           THEN [calls[d] EXCEPT !.overlapped = FALSE]
                           ELSE calls[d]]
            /\ UNCHANGED <<sessions, issued, nextJti, published, lastCall>>
       ELSE /\ lastCall' = LoginCall(result, id, deviceId, attempt, "none",
                                     NoToken, Null)
            /\ UNCHANGED <<users, failRun, sessions, issued, nextJti,
                           published, calls>>
  /\ LoginFrame

\* _revokeDeviceSessions, line 708: the device's active sessions are read
LoginFindDeviceSessions(c) ==
  /\ calls[c].pc = "authenticated"
  /\ calls' = [calls EXCEPT ![c] =
                 [pc |-> "found", userId |-> calls[c].userId,
                  deviceId |-> calls[c].deviceId, events |-> calls[c].events,
                  overlapped |-> calls[c].overlapped,
                  existingSessions |->
                    [i \in findByDeviceId(sessions, calls[c].userId,
                                          calls[c].deviceId) |-> sessions[i]]]]
  /\ UNCHANGED <<users, failRun, sessions, issued, nextJti, published,
                 lastCall>>
  /\ LoginFrame

\* _revokeDeviceSessions, lines 710-716: each session read that can be
\* revoked is revoked, saved and its event published
LoginRevokeDeviceSessions(c) ==
  /\ calls[c].pc = "found"
  /\ \E revoked \in {{i \in DOMAIN calls[c].existingSessions :
                        canBeRevoked(calls[c].existingSessions[i])}} :
       /\ sessions' = [i \in DOMAIN sessions |->
                         IF i \in revoked
                         THEN revoke(calls[c].existingSessions[i])
                         ELSE sessions[i]]
       /\ published' = published \cup
                         {SessionRevoked(calls[c].existingSessions[i],
                                         "new_device_login") : i \in revoked}
  /\ calls' = [calls EXCEPT ![c] =
                 [pc |-> "revoked", userId |-> calls[c].userId,
                  deviceId |-> calls[c].deviceId, events |-> calls[c].events,
                  overlapped |-> calls[c].overlapped]]
  /\ UNCHANGED <<users, failRun, issued, nextJti, lastCall>>
  /\ LoginFrame

\* lines 482-498: the new session is created, the login event published
\* and the call returns
LoginCreateSession(c) ==
  /\ calls[c].pc = "revoked"
  /\ \E tokens \in {SessionTokens(calls[c].userId, calls[c].deviceId,
                                  nextJti + 1)} :
       /\ sessions' = _createUserSession(sessions, calls[c].userId,
                                         calls[c].deviceId, nextJti + 1)
       /\ issued' = issued \cup {tokens.access_token, tokens.refresh_token}
       /\ lastCall' = [op |-> "loginUser", result |-> Ok, caller |-> c,
                       userId |-> calls[c].userId,
                       deviceId |-> calls[c].deviceId,
                       refresh_token |-> tokens.refresh_token,
                       session_id |-> SessionIdOf(Len(sessions) + 1)]
  /\ nextJti' = nextJti + 1
  /\ published' = published \cup calls[c].events
  /\ calls' = [calls EXCEPT ![c] =
                 [pc |-> "idle", userId |-> calls[c].userId,
                  deviceId |-> calls[c].deviceId,
                  overlapped |-> calls[c].overlapped,
                  created |-> Len(sessions) + 1]]
  /\ UNCHANGED <<users, failRun>>
  /\ LoginFrame

NextLogin ==
  \/ \E c \in Callers, password \in {PasswordA, PasswordB},
        deviceId \in Devices :
       LoginAuthenticate(c, PhoneA, CC86, password, deviceId)
  \/ \E c \in Callers : LoginFindDeviceSessions(c)
  \/ \E c \in Callers : LoginRevokeDeviceSessions(c)
  \/ \E c \in Callers : LoginCreateSession(c)

SpecLogin == Init /\ [][NextLogin]_vars

\* C29: however loginUser calls interleave, each (account, device) has at
\* most one active session.
C29_DeviceExclusivityInterleaved ==
  \A userId \in UserIds, deviceId \in Devices :
    Cardinality(ActiveOn(userId, deviceId)) <= 1

\* the call of caller c has returned a session
Returned(c) == calls[c].pc = "idle" /\ "created" \in DOMAIN calls[c]

\* C30: however loginUser calls of one account interleave, a session stops
\* being active only in the revocation step of a call that logs in on the
\* session's own device, and the session a call creates is active when the
\* call returns: a call on another device never revokes it.
C30_DevicesIndependent ==
  [][/\ \A i \in DOMAIN sessions :
          (sessions[i].isActive /\ ~sessions'[i].isActive)
          => \E c \in Callers :
               /\ calls[c].pc = "found" /\ calls'[c].pc = "revoked"
               /\ calls[c].userId = sessions[i].userId
               /\ calls[c].deviceId = sessions[i].deviceId
     /\ \A c \in Callers :
          (calls[c].pc = "revoked" /\ calls'[c].pc = "idle")
          => /\ sessions'[calls'[c].created].isActive
             /\ sessions'[calls'[c].created].deviceId = calls[c].deviceId
             /\ \A d \in Callers \ {c} :
                  (/\ Returned(d) /\ calls[d].overlapped
                   /\ calls[d].userId = calls[c].userId
                   /\ calls[d].deviceId # calls[c].deviceId)
                  => sessions'[calls[d].created].isActive]_vars

\* two calls on different devices overlapped, and both have returned
C30_Witness ==
  /\ Returned(1) /\ Returned(2)
  /\ calls[1].overlapped /\ calls[2].overlapped
  /\ calls[1].userId = calls[2].userId
  /\ calls[1].deviceId # calls[2].deviceId
  /\ sessions[calls[1].created].isActive
  /\ sessions[calls[2].created].isActive

(***************************************************************************)
(* SpecLoadSave: loginUser calls whose load of the account and save of it  *)
(* are separate steps (comparePassword is awaited between them), with      *)
(* suspendUser running in between                                          *)
(***************************************************************************)
\* lines 431-453: the account is loaded and checked and the password is
\* compared; the call holds the entity it loaded
LoginLoad(c, phone, countryCode, password, deviceId) ==
  /\ calls[c].pc = "idle"
  /\ Len(sessions) + Cardinality(InProgress) < MaxSessions
  /\ nextJti + Cardinality(InProgress) < MaxTokens
  /\ \E pv \in {validatePhoneNumber(phone, countryCode)} :
     \E found \in {IF pv.err = Ok THEN findByPhoneHash(users, hash(pv.e164))
                   ELSE {}} :
     \E id \in IF found = {} THEN {Null} ELSE found :
     \E result \in {LoginOutcome(pv, found, password, Null, "")} :
       IF result \in {Ok, ErrInvalidCredentials}
       THEN /\ calls' = [calls EXCEPT ![c] =
                           [pc |-> "loaded", userId |-> id,
                            deviceId |-> deviceId, user |-> users[id],
                            authSuccess |-> result = Ok,
                            suspendedSince |-> FALSE]]
            /\ UNCHANGED lastCall
       ELSE /\ lastCall' = LoginCall(result, id, deviceId,
                                     [phoneValid |-> pv.err = Ok,
                                      withPassword |-> TRUE,
                                      passwordCorrect |-> FALSE],
                                     "none", NoToken, Null)
            /\ UNCHANGED calls
  /\ UNCHANGED <<users, failRun, sessions, issued, nextJti, published>>
  /\ LoginFrame

\* lines 455-477: the failed or successful login is recorded on the entity
\* the call loaded, and that entity is saved
LoginRecord(c) ==
  /\ calls[c].pc = "loaded"
  /\ \E id \in {calls[c].userId} :
     \E attempt \in {[phoneValid |-> TRUE, withPassword |-> TRUE,
                      passwordCorrect |-> calls[c].authSuccess]} :
       IF ~calls[c].authSuccess
       THEN /\ LoginFailed(id, recordFailedLogin(calls[c].user),
                           calls[c].deviceId, attempt)
            /\ calls' = [calls EXCEPT ![c] = Idle]
       ELSE /\ users' = [users EXCEPT ![id] =
                           toPersistence(LoggedIn(calls[c].user))]
            /\ failRun' = [failRun EXCEPT ![id] = 0]
            /\ calls' = [calls EXCEPT ![c] =
                           [pc |-> "authenticated", userId |-> id,
                            deviceId |-> calls[c].deviceId,
                            events |-> EventsOf(LoggedIn(calls[c].user).domainEvents),
                            overlapped |-> calls[c].suspendedSince]]
            /\ UNCHANGED <<sessions, issued, nextJti, published, lastCall>>
  /\ LoginFrame

\* suspendUser while logins are in progress: a call that has loaded the
\* account holds the account as it was before the suspension
SuspendUserMeanwhile(userId, reason, durationDays) ==
  /\ \E result \in {IF ~users[userId].exists THEN ErrUserNotFound
                    ELSE IF ~canSuspend(users[userId]) THEN ErrAlreadySuspended
                    ELSE Ok} :
     \E after \in {suspend(users[userId], reason, durationDays)} :
       /\ IF result = Ok
          THEN /\ users' = [users EXCEPT ![userId] = toPersistence(after)]
               /\ sessions' = revokeAllForUser(sessions, userId, Null)
               /\ published' = published \cup EventsOf(after.domainEvents)
               /\ calls' = [c \in Callers |->
                              IF calls[c].pc = "loaded"
                                 /\ calls[c].userId = userId
                              THEN [calls[c] EXCEPT !.suspendedSince = TRUE]
                              ELSE calls[c]]
          ELSE UNCHANGED <<users, sessions, published, calls>>
       /\ lastCall' = [op |-> "suspendUser", result |-> result,
                       userId |-> userId]
  /\ UNCHANGED <<failRun, issued, nextJti>>
  /\ LoginFrame

NextLoadSave ==
  \/ \E c \in Callers, password \in {PasswordA, PasswordB} :
       LoginLoad(c, PhoneA, CC86, password, "device-1")
  \/ \E c \in Callers : LoginRecord(c)
  \/ \E c \in Callers : LoginFindDeviceSessions(c)
  \/ \E c \in Callers : LoginRevokeDeviceSessions(c)
  \/ \E c \in Callers : LoginCreateSession(c)
  \/ SuspendUserMeanwhile(1, "abuse", 1)

SpecLoadSave == Init /\ [][NextLoadSave]_vars

\* C31: once an account is stored as suspended with no active session, as
\* suspendUser leaves it, it stays so in every later step, however a
\* loginUser call that loaded the account earlier interleaves (no use case
\* applies unsuspend).
C31_SuspensionHolds ==
  [][\A id \in UserIds :
       (/\ users[id].exists /\ users[id].status = "suspended"
        /\ ActiveOf(id) = {})
       => /\ users'[id].status = "suspended"
          /\ {i \in DOMAIN sessions' : /\ sessions'[i].userId = id
                                       /\ sessions'[i].isActive} = {}]_vars

\* C33: for every account the stored failedLoginAttempts equals the number
\* of failed loginUser attempts completed since the last successful one,
\* however the calls interleave.
C33_NoLostFailure ==
  \A id \in UserIds :
    users[id].exists => users[id].failedLoginAttempts = failRun[id]

(***************************************************************************)
(* SpecGuards: the guarded operations of the User and UserSession entities *)
(***************************************************************************)
NextGuards ==
  \/ \E reason \in Reasons, durationDays \in Durations :
       Suspend(reason, durationDays)
  \/ Unsuspend
  \/ Verify
  \/ Deactivate
  \/ ScheduleForDeletion
  \/ ClearDomainEvents
  \/ Revoke
  \/ ClearSessionEvents

SpecGuards == Init /\ [][NextGuards]_vars

\* the step is a call of `op` (a repeated failing call changes nothing)
Calls(op) ==
  /\ lastCall'.op = op
  /\ (lastCall' # lastCall \/ entity' # entity \/ userSession' # userSession)

\* the call raised `err` and changed no field and no pending event
Refused(err) ==
  /\ lastCall'.result = err
  /\ entity' = entity
  /\ userSession' = userSession

\* C38: suspend on a suspended account, unsuspend on an account that is not
\* suspended, verify on a verified account, deactivate on a deactivated
\* account, scheduleForDeletion on a pending_deletion account and revoke on
\* a revoked or inactive session each raise their error and leave every
\* field and the pending events of the entity unchanged.
C38_GuardedNoEffect ==
  [][/\ (Calls("suspend") /\ entity.status = "suspended")
        => Refused(ErrAlreadySuspended)
     /\ (Calls("unsuspend") /\ entity.status # "suspended")
        => Refused(ErrNotSuspended)
     /\ (Calls("verify") /\ entity.isVerified)
        => Refused(ErrAlreadyVerified)
     /\ (Calls("deactivate") /\ entity.status = "deactivated")
        => Refused(ErrAlreadyDeactivated)
     /\ (Calls("scheduleForDeletion")
          /\ entity.status = "pending_deletion")
        => Refused(ErrAlreadyScheduled)
     /\ (Calls("revoke")
          /\ (userSession.revokedAt # Null \/ ~userSession.isActive))
        => Refused(ErrCannotRevoke)]_vars

\* a suspended account with a pending event was asked to suspend again
C38_Witness ==
  /\ lastCall.op = "suspend"
  /\ lastCall.result = ErrAlreadySuspended
  /\ entity.status = "suspended"
  /\ entity.domainEvents # <<>>
  /\ ~userSession.isActive

(***************************************************************************)
(* SpecPublish: the use cases that publish domain events, with their       *)
(* persistence calls failing or not                                        *)
(***************************************************************************)
LoginUserUnder(fault, phone, countryCode, password, deviceId) ==
  /\ loginUserUnder(fault, phone, countryCode, password, Null, "", deviceId)
  /\ UNCHANGED <<now, rateLimit, nextVid, entity, superseded, replaced,
                 userSession, secrets, calls, sent, subscribers>>

RefreshTokenUnder(fault, token) ==
  /\ refreshTokenUnder(fault, token, ErrInvalidSession)
  /\ UNCHANGED <<now, otpCache, rateLimit, nextVid, users, entity, verified,
                 wrongRun, failRun, replaced, userSession, secrets,
                 calls, sent, subscribers>>

ResetPasswordUnder(fault, phone, countryCode, resetToken, newPassword) ==
  /\ resetPasswordUnder(fault, phone, countryCode, resetToken, newPassword)
  /\ UNCHANGED <<now, otpCache, rateLimit, nextVid, issued, nextJti, entity,
                 verified, wrongRun, failRun, superseded, replaced,
                 userSession, secrets, calls, sent, subscribers>>

\* the issued tokens of a type that name a session, or reset a password
Naming(type) ==
  {token \in issued : /\ token.type = type
                       /\ (type # "password_reset" => token.sessionId # Null)}

NextPublish ==
  \/ \E fault \in {"none", "save", "saveSession"} :
       LoginUserUnder(fault, PhoneA, CC86, PasswordA, "device-1")
  \/ \E fault \in {"none", "save"} :
       LoginUserUnder(fault, PhoneB, CC86, PasswordB, "device-1")
  \/ \E i \in DOMAIN sessions :
       Naming("access") = {} /\ GenerateTokenPair(i)
  \/ \E fault \in {"none", "save"}, token \in Naming("refresh") :
       RefreshTokenUnder(fault, token)
  \/ \E fault \in {"none", "save"}, token \in Naming("access") :
       LogoutUnder(fault, token, ErrInvalidSession)
  \/ \E fault \in Faults :
       ChangeUserPassword(1, PasswordA, PasswordB, Null, fault)
  \/ GeneratePasswordResetToken(CC86 \o PhoneA, 1)
  \/ \E fault \in Faults, token \in Naming("password_reset") :
       ResetPasswordUnder(fault, PhoneA, CC86, token, PasswordB)
  \/ \E fault \in {"none", "save", "revokeAllForUser"} :
       AccountStatusChangeUnder(fault, "deactivateAccount", 1, PasswordA,
                                canDeactivate(users[1]),
                                ErrAlreadyDeactivated, deactivate(users[1]))
  \/ \E fault \in {"none", "save", "revokeAllForUser"} :
       AccountStatusChangeUnder(fault, "scheduleAccountDeletion", 1,
                                PasswordA, canScheduleForDeletion(users[1]),
                                ErrAlreadyScheduled,
                                scheduleForDeletion(users[1]))
  \/ \E fault \in {"none", "save", "revokeAllForUser"} :
       AdminAccountChangeUnder(fault, "suspendUser", 1,
                               canSuspend(users[1]), ErrAlreadySuspended,
                               suspend(users[1], "abuse", 1), TRUE)
  \/ \E fault \in {"none", "save"} :
       AdminAccountChangeUnder(fault, "verifyUser", 1, canVerify(users[1]),
                               ErrAlreadyVerified, verify(users[1]), FALSE)
  \/ RegisterUser(PhoneC, CC86, PasswordB, 1, mockOtpCode, "device-1")

\* account 2 has failed to log in four times
InitPublish ==
  /\ ConstructedOver([SeedUsers EXCEPT
                        ![2].failedLoginAttempts = LockThreshold - 1])
  /\ otpCache = [v \in VerificationIds |-> NoEntry]
  /\ secrets = DistinctSecrets

\* behaviours are followed until MaxPublished different events are out
SpecPublish ==
  InitPublish /\ [][Cardinality(published) < MaxPublished /\ NextPublish]_vars

\* the row of the session an event names
RowOf(rows, sessionId) == rows[CHOOSE i \in DOMAIN rows : rows[i].sessionId = sessionId]

\* C34: in every step of a use case that hands an event to the publisher
\* for the first time, the state change that produced the event is in the
\* store when the step is over: a use case whose save fails publishes
\* nothing for it.
C34_PublishAfterPersist ==
  [][\A event \in published' \ published :
       \E id \in {event.aggregateId} :
         CASE event.type = "UserLoggedIn" ->
                /\ users'[id].failedLoginAttempts = 0
                /\ Len(sessions') = Len(sessions) + 1
                /\ sessions'[Len(sessions')].userId = id
           [] event.type = "UserAccountLocked" ->
                /\ users'[id].failedLoginAttempts
                     = users[id].failedLoginAttempts + 1
                /\ users'[id].failedLoginAttempts >= LockThreshold
           [] event.type = "UserPasswordChanged" ->
                \/ users'[id].passwordHash # users[id].passwordHash
                \/ users'[id].passwordHistory # users[id].passwordHistory
           [] event.type = "UserSuspended" ->
                /\ users[id].status # "suspended"
                /\ users'[id].status = "suspended"
           [] event.type = "UserVerified" ->
                ~users[id].isVerified /\ users'[id].isVerified
           [] event.type = "UserDeactivated" ->
                /\ users[id].status # "deactivated"
                /\ users'[id].status = "deactivated"
           [] event.type = "UserScheduledForDeletion" ->
                /\ users[id].status # "pending_deletion"
                /\ users'[id].status = "pending_deletion"
           [] event.type = "SessionRevoked" ->
                /\ RowOf(sessions, id).isActive
                /\ ~RowOf(sessions', id).isActive
                /\ RowOf(sessions', id).revokedAt # Null
           [] event.type = "SessionRefreshTokenUpdated" ->
                RowOf(sessions', id).refreshToken
                  # RowOf(sessions, id).refreshToken
           [] OTHER -> FALSE]_vars

\* suspendUser failed in its save after other use cases had published:
\* the account is not suspended and no suspension event is out
C34_Witness ==
  /\ lastCall.op = "suspendUser"
  /\ lastCall.result = ErrPersistence
  /\ lastCall.fault = "save"
  /\ users[1].status # "suspended"
  /\ \E event \in published : event.type = "UserLoggedIn"
  /\ \A event \in published : event.type # "UserSuspended"
====
